---------------------------- MODULE Spec2Model ----------------------------
(***************************************************************************)
(* EasyDict cloud: the user service (docker/user/main.py: dictionary       *)
(* uploads, the version_history ledger and the update manifest) and the    *)
(* API service (docker/api/main.py: the ZIP index cache and the zstd       *)
(* decoding of entries).                                                   *)
(*                                                                         *)
(* Every request handler of the two services is a coroutine on one event   *)
(* loop, so requests interleave only at an await.  The handlers of the     *)
(* user service read and write the tables after their last await, and      *)
(* get_zip_index has no await at all: each handler is one action.          *)
(***************************************************************************)
EXTENDS Integers, Sequences, FiniteSets, TLC

(***************************************************************************)
(* Bounds of the model                                                     *)
(***************************************************************************)
MaxLedger == 6      \* rows of version_history
MaxFailAt == 2      \* which call of record_version may raise in a request
MaxEntries == 2     \* entries of an archive
MaxMtime == 3       \* writes of the external writer to one archive
MaxConnections == 3 \* aiosqlite connections opened or being opened

(***************************************************************************)
(* Input domains                                                           *)
(***************************************************************************)
DictIds  == {"d1", "d2"}
Users    == {"u1", "u2"}
Messages == {"m1", "m2"}
EntryIds == {42, 43}

\* The four files of a dictionary, in the order update_dict handles them.
FileOrder == <<"metadata.json", "dictionary.db", "logo.png", "media.db">>
FileNames == {FileOrder[i] : i \in DOMAIN FileOrder}

\* The sets of files one update_dict request carries.
UploadSets ==
    { {}, {"dictionary.db"}, {"metadata.json", "logo.png"}, {"media.db"} }

(***************************************************************************)
(* SQL and Python values                                                   *)
(***************************************************************************)
\* A nullable SQL value: <<>> is NULL, <<v>> is the value v.
SqlNull == <<>>
SqlVal(v) == <<v>>

\* Python's "x or 0" on a nullable integer.
PyOr0(x) == IF x = SqlNull \/ x = SqlVal(0) THEN 0 ELSE x[1]

\* Python's int(...) of the TEXT column entry_id.
PyInt(x) == x[1]

Max(S) == CHOOSE x \in S : \A y \in S : y <= x

NoRow == [user_id |-> "none", has_media |-> FALSE]
NoDir == {"<no directory>"}

VARIABLES
    ledger,     \* table version_history, in rowid order
    dicts,      \* table dicts: dict_id -> row, or NoRow
    disk,       \* DICTS_PATH/<dict_id>: the files of the directory, or NoDir
    issued,     \* dict_id -> the version of its last successful batch (0: none)
    resp        \* the response of the last request

userVars == <<ledger, dicts, disk, issued, resp>>

(***************************************************************************)
(* The ledger                                                              *)
(***************************************************************************)
Row(d, v, m, ct, fn, eid) ==
    [dict_id |-> d, version |-> v, message |-> m, change_type |-> ct,
     file_name |-> fn, entry_id |-> eid]

\* SELECT MAX(version) FROM version_history
SelectMaxVersion_any_dict(L, d) ==
    LET vs == {L[i].version : i \in DOMAIN L}
    IN  IF vs = {} THEN SqlNull ELSE SqlVal(Max(vs))

\* SELECT MAX(version) FROM version_history WHERE dict_id = ?
SelectMaxVersion(L, d) ==
    LET vs == {L[i].version : i \in {j \in DOMAIN L : L[j].dict_id = d}}
    IN  IF vs = {} THEN SqlNull ELSE SqlVal(Max(vs))

\* A next_version whose query lacks WHERE dict_id = ?.
next_version_all(L, d) ==
    LET vs == {L[i].version : i \in DOMAIN L}
    IN  PyOr0(IF vs = {} THEN SqlNull ELSE SqlVal(Max(vs))) + 1

next_version(L, d) == PyOr0(SelectMaxVersion(L, d)) + 1

\* A record_version that is an INSERT OR REPLACE on (dict_id, file_name).
record_version_replace(L, d, v, m, ct, fn, eid) ==
    SelectSeq(L, LAMBDA r : r.dict_id # d \/ r.file_name # fn)
        \o <<Row(d, v, m, ct, fn, eid)>>

\* INSERT INTO version_history (...) VALUES (...)
record_version(L, d, v, m, ct, fn, eid) == Append(L, Row(d, v, m, ct, fn, eid))


(***************************************************************************)
(* The update manifest                                                     *)
(***************************************************************************)
\* ORDER BY version ASC: rows of equal version stay in rowid order (the scan
\* of idx_vh_dict_version).
RECURSIVE OrderByVersion(_)
OrderByVersion(rows) ==
    IF rows = <<>> THEN <<>>
    ELSE LET lo == CHOOSE i \in DOMAIN rows :
                       /\ \A j \in DOMAIN rows : rows[i].version <= rows[j].version
                       /\ \A j \in 1..(i - 1) : rows[j].version # rows[i].version
         IN  <<rows[lo]>> \o
             OrderByVersion([k \in 1..(Len(rows) - 1) |->
                                IF k < lo THEN rows[k] ELSE rows[k + 1]])

\* A window over the rows of every dictionary.
InWindow_any_dict(r, d, from_ver, to_ver) ==
    r.version > from_ver /\ r.version <= to_ver

\* A window with version >= from_ver.
InWindow_closed(r, d, from_ver, to_ver) ==
    r.dict_id = d /\ r.version >= from_ver /\ r.version <= to_ver

\* WHERE dict_id = ? AND version > ? AND version <= ?
InWindow(r, d, from_ver, to_ver) ==
    r.dict_id = d /\ r.version > from_ver /\ r.version <= to_ver

SelectWindow(L, d, from_ver, to_ver) ==
    OrderByVersion(SelectSeq(L, LAMBDA r : InWindow(r, d, from_ver, to_ver)))

\* An assignment that moves the key to the end of the dict.
DictSet_move_to_end(keys, k) ==
    Append(SelectSeq(keys, LAMBDA x : x # k), k)

\* entries_needed[k] = None on an insertion-ordered dict, kept as the
\* sequence of its keys.
DictSet(keys, k) ==
    IF \E i \in DOMAIN keys : keys[i] = k THEN keys ELSE Append(keys, k)

\* A loop body without entries_needed.clear().
Scan_noclear(acc, r) ==
    IF r.change_type = "file"
    THEN [files |-> acc.files \cup {r.file_name}, entries |-> acc.entries]
    ELSE IF r.change_type = "entry"
    THEN [files |-> acc.files,
          entries |-> DictSet(acc.entries, PyInt(r.entry_id))]
    ELSE acc

\* The body of the loop "for r in rows" of _compute_required_files.
Scan(acc, r) ==
    IF r.change_type = "file"
    THEN [files   |-> acc.files \cup {r.file_name},
          entries |-> IF r.file_name = "dictionary.db" THEN <<>> ELSE acc.entries]
    ELSE IF r.change_type = "entry"
    THEN [files |-> acc.files,
          entries |-> DictSet(acc.entries, PyInt(r.entry_id))]
    ELSE acc

RECURSIVE ScanRows(_, _)
ScanRows(acc, rows) ==
    IF rows = <<>> THEN acc ELSE ScanRows(Scan(acc, Head(rows)), Tail(rows))

\* sorted(files_needed), on the file names of the model.
RankOf(fn) == CHOOSE i \in 1..4 :
    <<"dictionary.db", "logo.png", "media.db", "metadata.json">>[i] = fn

RECURSIVE Sorted(_)
Sorted(S) ==
    IF S = {} THEN <<>>
    ELSE LET lo == CHOOSE x \in S : \A y \in S : RankOf(x) <= RankOf(y)
         IN  <<lo>> \o Sorted(S \ {lo})

_compute_required_files(L, d, from_ver, to_ver) ==
    LET rows == SelectWindow(L, d, from_ver, to_ver)
        acc  == ScanRows([files |-> {}, entries |-> <<>>], rows)
    IN  [files |-> Sorted(acc.files), entries |-> acc.entries]

\* SELECT version, message: a pair for each row.
Distinct_all_rows(pairs) == pairs

\* SELECT DISTINCT version, message: each pair once, at its first row.
RECURSIVE Distinct(_)
Distinct(pairs) ==
    IF pairs = <<>> THEN <<>>
    ELSE LET init == Distinct(SubSeq(pairs, 1, Len(pairs) - 1))
             last == pairs[Len(pairs)]
         IN  IF \E i \in DOMAIN init : init[i] = last THEN init
             ELSE Append(init, last)

_get_history_between(L, d, from_ver, to_ver) ==
    LET rows == SelectSeq(L, LAMBDA r : InWindow(r, d, from_ver, to_ver))
        pairs == [i \in DOMAIN rows |->
                     [version |-> rows[i].version, message |-> rows[i].message]]
        sorted == OrderByVersion(Distinct(pairs))
    IN  [i \in DOMAIN sorted |-> [v |-> sorted[i].version, m |-> sorted[i].message]]

(***************************************************************************)
(* The requests of the user service                                        *)
(***************************************************************************)
NoManifest == [files |-> <<>>, entries |-> <<>>]

\* version: the version the request assigned (a batch) or its "to" (an update
\* query); from_ver and required: the "from" and "required" of an update query.
\* to_omitted: the update query left to_ver out; history: its "history".
Response(op, d, status, ver, required) ==
    [op |-> op, dict_id |-> d, status |-> status, version |-> ver,
     from_ver |-> 0, to_omitted |-> FALSE, history |-> <<>>,
     required |-> required]

\* The lines of an entries upload: a blank line, a line that is no JSON, or an
\* entry with or without the key entry_id.
Blank   == [kind |-> "blank", entry_id |-> SqlNull]
BadJson == [kind |-> "bad",   entry_id |-> SqlNull]
Entry(eid) == [kind |-> "entry", entry_id |-> eid]
E42 == Entry(SqlVal(42))
E43 == Entry(SqlVal(43))
Uploads ==
    { <<>>, <<E42>>, <<E43, Blank>>, <<E42, E43>>, <<E42, BadJson>>,
      <<Entry(SqlNull)>> }

\* failAt = 0: every INSERT of the request succeeds; failAt = k: the k-th call
\* of record_version in the request raises.
FailPoints == 0..MaxFailAt

\* A record loop that calls next_version for each file.
RECURSIVE RecordFiles_per_file(_, _, _, _, _, _, _)
RecordFiles_per_file(L, d, ver, m, fnames, n, failAt) ==
    IF fnames = <<>> THEN [ledger |-> L, status |-> 200]
    ELSE IF failAt = n + 1 THEN [ledger |-> L, status |-> 500]
    ELSE RecordFiles_per_file(
             record_version(L, d, next_version(L, d), m, "file", Head(fnames), SqlNull),
             d, ver, m, Tail(fnames), n + 1, failAt)

\* "for fname in ...: record_version(dict_id, ver, message, 'file', fname)",
\* with n INSERTs already done by the request.
RECURSIVE RecordFiles(_, _, _, _, _, _, _)
RecordFiles(L, d, ver, m, fnames, n, failAt) ==
    IF fnames = <<>> THEN [ledger |-> L, status |-> 200]
    ELSE IF failAt = n + 1 THEN [ledger |-> L, status |-> 500]
    ELSE RecordFiles(record_version(L, d, ver, m, "file", Head(fnames), SqlNull),
                     d, ver, m, Tail(fnames), n + 1, failAt)

\* The files of an upload, in the order the handler writes them.
InOrder(files) == SelectSeq(FileOrder, LAMBDA fn : fn \in files)

StartResp == Response("none", "d1", 0, 0, NoManifest)

InitUser ==
    /\ ledger = <<>>
    /\ dicts = [d \in DictIds |-> NoRow]
    /\ disk = [d \in DictIds |-> NoDir]
    /\ issued = [d \in DictIds |-> 0]
    /\ resp = StartResp

\* POST /user/dicts
create_dict(u, d, media, m, failAt) ==
    IF dicts[d] # NoRow \/ disk[d] # NoDir
    THEN /\ resp' = Response("create_dict", d, 400, 0, NoManifest)
         /\ UNCHANGED <<ledger, dicts, disk, issued>>
    ELSE LET fnames == <<"metadata.json", "dictionary.db", "logo.png">>
                           \o (IF media THEN <<"media.db">> ELSE <<>>)
             ver == next_version(ledger, d)
             out == RecordFiles(ledger, d, ver, m, fnames, 0, failAt)
         IN  /\ Len(out.ledger) <= MaxLedger
             /\ dicts' = [dicts EXCEPT ![d] = [user_id |-> u, has_media |-> media]]
             /\ ledger' = out.ledger
             /\ IF out.status = 200
                THEN /\ disk' = [disk EXCEPT ![d] = {fnames[i] : i \in DOMAIN fnames}]
                     /\ issued' = [issued EXCEPT ![d] = ver]
                     /\ resp' = Response("create_dict", d, 200, ver, NoManifest)
                ELSE \* except Exception: shutil.rmtree(target_dir)
                     /\ disk' = [disk EXCEPT ![d] = NoDir]
                     /\ issued' = issued
                     /\ resp' = Response("create_dict", d, 500, 0, NoManifest)

\* A delete_dict whose SELECT lacks "AND user_id = ?".
delete_dict_any_user(u, d) ==
    IF dicts[d] = NoRow
    THEN /\ resp' = Response("delete_dict", d, 404, 0, NoManifest)
         /\ UNCHANGED <<ledger, dicts, disk, issued>>
    ELSE /\ disk' = [disk EXCEPT ![d] = NoDir]
         /\ dicts' = [dicts EXCEPT ![d] = NoRow]
         /\ resp' = Response("delete_dict", d, 200, 0, NoManifest)
         /\ UNCHANGED <<ledger, issued>>

\* DELETE /user/dicts/{dict_id}
delete_dict(u, d) ==
    IF dicts[d] = NoRow \/ dicts[d].user_id # u
    THEN /\ resp' = Response("delete_dict", d, 404, 0, NoManifest)
         /\ UNCHANGED <<ledger, dicts, disk, issued>>
    ELSE /\ disk' = [disk EXCEPT ![d] = NoDir]
         /\ dicts' = [dicts EXCEPT ![d] = NoRow]
         /\ resp' = Response("delete_dict", d, 200, 0, NoManifest)
         /\ UNCHANGED <<ledger, issued>>

\* An update_dict without the test "if not updated_files".
update_dict_no_file_test(u, d, m, files, meta, failAt) ==
    IF dicts[d] = NoRow \/ dicts[d].user_id # u
    THEN /\ resp' = Response("update_dict", d, 404, 0, NoManifest)
         /\ UNCHANGED <<ledger, dicts, disk, issued>>
    ELSE IF disk[d] = NoDir
    THEN /\ resp' = Response("update_dict", d, 400, 0, NoManifest)
         /\ UNCHANGED <<ledger, dicts, disk, issued>>
    ELSE IF "metadata.json" \in files /\ meta # "ok"
    THEN /\ resp' = Response("update_dict", d,
                             IF meta = "unparsable" THEN 500 ELSE 400, 0, NoManifest)
         /\ UNCHANGED <<ledger, dicts, disk, issued>>
    ELSE LET ver == next_version(ledger, d)
             out == RecordFiles(ledger, d, ver, m, InOrder(files), 0, failAt)
         IN  /\ Len(out.ledger) <= MaxLedger
             /\ disk' = [disk EXCEPT ![d] = disk[d] \cup files]
             /\ dicts' = [dicts EXCEPT ![d].has_media =
                              dicts[d].has_media \/ "media.db" \in files]
             /\ ledger' = out.ledger
             /\ issued' = IF out.status = 200
                          THEN [issued EXCEPT ![d] = ver] ELSE issued
             /\ resp' = Response("update_dict", d, out.status,
                                 IF out.status = 200 THEN ver ELSE 0, NoManifest)

\* POST /user/dicts/{dict_id}
update_dict(u, d, m, files, meta, failAt) ==
    IF dicts[d] = NoRow \/ dicts[d].user_id # u
    THEN /\ resp' = Response("update_dict", d, 404, 0, NoManifest)
         /\ UNCHANGED <<ledger, dicts, disk, issued>>
    ELSE IF disk[d] = NoDir
    THEN /\ resp' = Response("update_dict", d, 400, 0, NoManifest)
         /\ UNCHANGED <<ledger, dicts, disk, issued>>
    ELSE IF "metadata.json" \in files /\ meta # "ok"
    THEN \* the metadata is read and checked before any file is written
         /\ resp' = Response("update_dict", d,
                             IF meta = "unparsable" THEN 500 ELSE 400, 0, NoManifest)
         /\ UNCHANGED <<ledger, dicts, disk, issued>>
    ELSE IF files = {}
    THEN /\ resp' = Response("update_dict", d, 400, 0, NoManifest)
         /\ UNCHANGED <<ledger, dicts, disk, issued>>
    ELSE LET ver == next_version(ledger, d)
             out == RecordFiles(ledger, d, ver, m, InOrder(files), 0, failAt)
         IN  /\ Len(out.ledger) <= MaxLedger
             /\ disk' = [disk EXCEPT ![d] = disk[d] \cup files]
             /\ dicts' = [dicts EXCEPT ![d].has_media =
                              dicts[d].has_media \/ "media.db" \in files]
             /\ ledger' = out.ledger
             /\ issued' = IF out.status = 200
                          THEN [issued EXCEPT ![d] = ver] ELSE issued
             /\ resp' = Response("update_dict", d, out.status,
                                 IF out.status = 200 THEN ver ELSE 0, NoManifest)

\* The loop over the lines of upsert_dict_entries, from line i on, with n
\* INSERTs already done by the request.
RECURSIVE UpsertLines(_, _, _, _, _, _, _, _)
UpsertLines(L, d, ver, m, lines, i, n, failAt) ==
    IF i > Len(lines) THEN [ledger |-> L, status |-> 200]
    ELSE IF lines[i].kind = "blank"
    THEN UpsertLines(L, d, ver, m, lines, i + 1, n, failAt)
    ELSE IF lines[i].kind = "bad" THEN [ledger |-> L, status |-> 400]
    ELSE IF lines[i].entry_id = SqlNull
    THEN UpsertLines(L, d, ver, m, lines, i + 1, n, failAt)
    ELSE IF failAt = n + 1 THEN [ledger |-> L, status |-> 500]
    ELSE UpsertLines(
             record_version(L, d, ver, m, "entry", "dictionary.db", lines[i].entry_id),
             d, ver, m, lines, i + 1, n + 1, failAt)

\* POST /user/dicts/{dict_id}/entries
upsert_dict_entries(u, d, m, zst, lines, failAt) ==
    IF dicts[d] = NoRow \/ dicts[d].user_id # u
    THEN /\ resp' = Response("upsert_dict_entries", d, 404, 0, NoManifest)
         /\ UNCHANGED <<ledger, dicts, disk, issued>>
    ELSE IF disk[d] = NoDir \/ "dictionary.db" \notin disk[d] \/ ~zst
    THEN /\ resp' = Response("upsert_dict_entries", d, 400, 0, NoManifest)
         /\ UNCHANGED <<ledger, dicts, disk, issued>>
    ELSE LET ver == next_version(ledger, d)
             out == UpsertLines(ledger, d, ver, m, lines, 1, 0, failAt)
         IN  /\ Len(out.ledger) <= MaxLedger
             /\ ledger' = out.ledger
             /\ issued' = IF out.status = 200
                          THEN [issued EXCEPT ![d] = ver] ELSE issued
             /\ resp' = Response("upsert_dict_entries", d, out.status,
                                 IF out.status = 200 THEN ver ELSE 0, NoManifest)
             /\ UNCHANGED <<dicts, disk>>

\* GET /update/{dict_id}; to_ver = SqlNull when the request leaves it out.
get_updates(d, from_ver, to_ver) ==
    IF disk[d] = NoDir
    THEN /\ resp' = [Response("get_updates", d, 404, 0, NoManifest)
                        EXCEPT !.from_ver = from_ver,
                               !.to_omitted = (to_ver = SqlNull)]
         /\ UNCHANGED <<ledger, dicts, disk, issued>>
    ELSE LET to == IF to_ver = SqlNull
                   THEN (IF SelectMaxVersion(ledger, d) # SqlNull
                         THEN SelectMaxVersion(ledger, d)[1] ELSE 0)
                   ELSE to_ver[1]
         IN  /\ resp' = [Response("get_updates", d, 200, PyOr0(SqlVal(to)),
                             _compute_required_files(ledger, d, from_ver,
                                                     PyOr0(SqlVal(to))))
                            EXCEPT !.from_ver = from_ver,
                                   !.to_omitted = (to_ver = SqlNull),
                                   !.history = _get_history_between(
                                       ledger, d, from_ver, PyOr0(SqlVal(to)))]
             /\ UNCHANGED <<ledger, dicts, disk, issued>>

(***************************************************************************)
(* The API service: archives and the ZIP index cache                       *)
(***************************************************************************)
\* The name of an archive entry is the sequence of its segments between the
\* slashes ("media/audios/w1.mp3" is <<"media", "audios", "w1.mp3">>); a
\* directory entry "media/" is <<"media", "">>.  A request path, a key of the
\* index, is such a sequence too.
ZipKeys == {"audios.zip", "images.zip"}

EntryNames ==
    { <<"media", "audios", "w1.mp3">>, <<"audios", "w1.mp3">>, <<"w1.mp3">>,
      <<"x", "w1.mp3">>, <<"w2.mp3">>, <<"media", "">> }

RequestPaths == EntryNames \cup {<<"nope.mp3">>}

\* Every archive of at most MaxEntries entries with different names.
AllArchives ==
    {q \in UNION {[1..n -> EntryNames] : n \in 0..MaxEntries} :
        \A i, j \in DOMAIN q : i # j => q[i] # q[j]}

\* The archives the external writer installs.
WrittenArchives ==
    { <<<<"media", "audios", "w1.mp3">>>>,
      <<<<"media", "">>, <<"x", "w1.mp3">>, <<"w1.mp3">>>> }

\* A file of the file system: a ZIP archive (valid), other bytes, or no file;
\* mtime is st_mtime, and the last one the path had when there is no file.
File(m, valid, names) ==
    [exists |-> TRUE, valid |-> valid, mtime |-> m, names |-> names]
NoFile(m) == [exists |-> FALSE, valid |-> FALSE, mtime |-> m, names |-> <<>>]

\* Python dicts: functions on the keys they hold.
EmptyDict == <<>>
DictPut(dict, k, v) == (k :> v) @@ dict
DictDel(dict, k) == [x \in (DOMAIN dict) \ {k} |-> dict[x]]

VARIABLES
    fs,                    \* zip_path -> the file at that path
    handles,               \* the ZipFile objects opened so far
    zip_file_cache,        \* _zip_file_cache: zip_path -> index into handles
    zip_index_cache,       \* _zip_index_cache: zip_path -> {request path: name}
    zip_file_mtime_cache,  \* _zip_file_mtime_cache
    zip_file_count_cache,  \* _zip_file_count_cache
    apiResp                \* the outcome of the last request of the API service

zipCaches ==
    <<zip_file_cache, zip_index_cache, zip_file_mtime_cache, zip_file_count_cache>>
apiVars == <<fs, handles, zipCaches, apiResp>>

\* name.endswith('/')
IsDir(name) == Len(name) >= 2 /\ name[Len(name)] = ""

\* A loop body that registers the basename and the path without its first two
\* segments, and not the path without its first segment.
IndexName_no_tail1(acc, name) ==
    IF IsDir(name) THEN acc
    ELSE LET filename == <<name[Len(name)]>>
             i1 == DictPut(acc.index, name, name)
             i2 == IF filename # <<"">> THEN DictPut(i1, filename, name) ELSE i1
             i4 == IF Len(name) > 2 THEN DictPut(i2, Tail(Tail(name)), name) ELSE i2
         IN  [index |-> i4, file_count |-> acc.file_count + 1]

\* The body of the loop "for name in namelist" of get_zip_index.
IndexName(acc, name) ==
    IF IsDir(name) THEN acc
    ELSE LET filename == <<name[Len(name)]>>
             i1 == DictPut(acc.index, name, name)
             i2 == IF filename # <<"">> THEN DictPut(i1, filename, name) ELSE i1
             i3 == IF Len(name) > 1 THEN DictPut(i2, Tail(name), name) ELSE i2
             i4 == IF Len(name) > 2 THEN DictPut(i3, Tail(Tail(name)), name) ELSE i3
         IN  [index |-> i4, file_count |-> acc.file_count + 1]

RECURSIVE IndexNames(_, _)
IndexNames(acc, namelist) ==
    IF namelist = <<>> THEN acc
    ELSE IndexNames(IndexName(acc, Head(namelist)), Tail(namelist))

BuildIndex(namelist) ==
    IndexNames([index |-> EmptyDict, file_count |-> 0], namelist)

\* The files the external writer may put at a path that holds `file`: an
\* archive or other bytes with a fresh mtime, or nothing.
Writes(file) ==
    (IF file.mtime < MaxMtime
     THEN {File(file.mtime + 1, TRUE, a) : a \in WrittenArchives}
            \cup {File(file.mtime + 1, FALSE, <<>>)}
     ELSE {})
    \cup (IF file.exists THEN {NoFile(file.mtime)} ELSE {})

\* The file ZipFile(zip_path) may find: the one stat() saw, or one the external
\* writer has put there since.
AtOpen(k) == {fs[k]} \cup Writes(fs[k])

\* A cache check that does not compare the mtime.
CacheHit_any_mtime(k) == k \in DOMAIN zip_file_cache

\* cache_key in _zip_file_cache
\*     and _zip_file_mtime_cache.get(cache_key) == current_mtime
CacheHit(k) ==
    /\ k \in DOMAIN zip_file_cache
    /\ k \in DOMAIN zip_file_mtime_cache
    /\ zip_file_mtime_cache[k] = fs[k].mtime

\* The state a call leaves and what it returns.
Outcome(status, index, rebuilt, mtime, file, hs, zfc, zic, zmc, zcc) ==
    [status |-> status, index |-> index, rebuilt |-> rebuilt, mtime |-> mtime,
     file |-> file, handles |-> hs, zip_file_cache |-> zfc,
     zip_index_cache |-> zic, zip_file_mtime_cache |-> zmc,
     zip_file_count_cache |-> zcc]

\* A return that loses the cached ZipFile of the archive.
Unchanged_drops_handle(k, status, index, mtime) ==
    Outcome(status, index, FALSE, mtime, fs[k], handles, DictDel(zip_file_cache, k),
            zip_index_cache, zip_file_mtime_cache, zip_file_count_cache)

Unchanged(k, status, index, mtime) ==
    Outcome(status, index, FALSE, mtime, fs[k], handles, zip_file_cache,
            zip_index_cache, zip_file_mtime_cache, zip_file_count_cache)

\* await get_zip_index(zip_path), the file at zip_path being atOpen when
\* ZipFile(zip_path) runs.
get_zip_index(k, atOpen) ==
    IF ~fs[k].exists THEN Unchanged(k, 404, EmptyDict, 0)
    ELSE IF CacheHit(k)
    THEN Unchanged(k, 200, zip_index_cache[k], fs[k].mtime)
    ELSE LET current_mtime == fs[k].mtime
             \* _zip_file_cache[cache_key].close(); del _zip_file_cache[cache_key]
             hs  == IF k \in DOMAIN zip_file_cache
                    THEN [handles EXCEPT ![zip_file_cache[k]].open = FALSE]
                    ELSE handles
             zfc == DictDel(zip_file_cache, k)
         IN  IF ~atOpen.exists \/ ~atOpen.valid
             THEN Outcome(500, EmptyDict, TRUE, current_mtime, atOpen, hs, zfc,
                          zip_index_cache, zip_file_mtime_cache,
                          zip_file_count_cache)
             ELSE LET built == BuildIndex(atOpen.names)
                      zf == [key |-> k, names |-> atOpen.names, open |-> TRUE]
                  IN  Outcome(200, built.index, TRUE, current_mtime, atOpen,
                              Append(hs, zf),
                              DictPut(zfc, k, Len(hs) + 1),
                              DictPut(zip_index_cache, k, built.index),
                              DictPut(zip_file_mtime_cache, k, current_mtime),
                              DictPut(zip_file_count_cache, k, built.file_count))

ApiResponse(op, k, out, path, target, handle) ==
    [op |-> op, key |-> k, status |-> out.status, index |-> out.index,
     rebuilt |-> out.rebuilt, mtime |-> out.mtime, path |-> path,
     target |-> target, handle |-> handle, body |-> <<>>]

Leaves(k, out) ==
    /\ fs' = [fs EXCEPT ![k] = out.file]
    /\ handles' = out.handles
    /\ zip_file_cache' = out.zip_file_cache
    /\ zip_index_cache' = out.zip_index_cache
    /\ zip_file_mtime_cache' = out.zip_file_mtime_cache
    /\ zip_file_count_cache' = out.zip_file_count_cache

\* A request that is one call of get_zip_index (as preload_zip_indexes makes
\* for each archive).
GetZipIndex(k, atOpen) ==
    LET out == get_zip_index(k, atOpen)
    IN  /\ Leaves(k, out)
        /\ apiResp' = ApiResponse("get_zip_index", k, out, <<>>, <<>>, 0)

\* A get_file_from_zip without the test "file_path not in zip_index": the
\* producer is made for any path, and fails when it opens the entry.
get_file_from_zip_unchecked(k, file_path, atOpen) ==
    LET out == get_zip_index(k, atOpen)
        zf == IF k \in DOMAIN out.zip_file_cache THEN out.zip_file_cache[k] ELSE 0
        status == IF out.status # 200 THEN out.status
                  ELSE IF zf = 0 THEN 500 ELSE 200
    IN  /\ Leaves(k, out)
        /\ apiResp' = ApiResponse("get_file_from_zip", k,
                          [out EXCEPT !.status = status], file_path,
                          IF status # 200 THEN <<>>
                          ELSE IF file_path \in DOMAIN out.index
                               THEN out.index[file_path] ELSE file_path,
                          IF status = 200 THEN zf ELSE 0)

\* get_file_from_zip(zip_path, file_path, ...) up to the StreamingResponse: a
\* producer that reads the entry target from the ZipFile handle.
get_file_from_zip(k, file_path, atOpen) ==
    LET out == get_zip_index(k, atOpen)
        found == out.status = 200 /\ file_path \in DOMAIN out.index
        zf == IF k \in DOMAIN out.zip_file_cache THEN out.zip_file_cache[k] ELSE 0
        status == IF out.status # 200 THEN out.status
                  ELSE IF ~found THEN 404
                  ELSE IF zf = 0 THEN 500 ELSE 200
    IN  /\ Leaves(k, out)
        /\ apiResp' = ApiResponse("get_file_from_zip", k,
                          [out EXCEPT !.status = status], file_path,
                          IF status = 200 THEN out.index[file_path] ELSE <<>>,
                          IF status = 200 THEN zf ELSE 0)

\* Before the first request.
StartApiResp ==
    [op |-> "none", key |-> "audios.zip", status |-> 0, index |-> EmptyDict,
     rebuilt |-> FALSE, mtime |-> 0, path |-> <<>>, target |-> <<>>, handle |-> 0,
     body |-> <<>>]

\* await count_files_in_zip_index(zip_path): the count of the cache when
\* there is one, else the count that get_zip_index leaves, or 0.
count_files_in_zip_index(k, atOpen) ==
    IF k \in DOMAIN zip_file_count_cache
    THEN /\ apiResp' = [ApiResponse("count_files_in_zip_index", k,
                                    Unchanged(k, 200, EmptyDict, 0), <<>>, <<>>, 0)
                           EXCEPT !.body = <<zip_file_count_cache[k]>>]
         /\ UNCHANGED <<fs, handles, zipCaches>>
    ELSE LET out == get_zip_index(k, atOpen)
             count == IF out.status = 200 /\ k \in DOMAIN out.zip_file_count_cache
                      THEN out.zip_file_count_cache[k] ELSE 0
         IN  /\ Leaves(k, out)
             /\ apiResp' = [ApiResponse("count_files_in_zip_index", k,
                                        [out EXCEPT !.status = 200, !.index = EmptyDict],
                                        <<>>, <<>>, 0)
                               EXCEPT !.body = <<count>>]

\* The archives preload_zip_indexes looks for in a dictionary directory.
PreloadKeys == <<"audios.zip", "images.zip">>

\* The loop of preload_zip_indexes from the archive keys[1] on: get_zip_index
\* of each archive that exists, on caches that hold nothing of it; a failure is
\* logged and the loop goes on.
RECURSIVE PreloadFrom(_, _)
PreloadFrom(acc, keys) ==
    IF keys = <<>> THEN acc
    ELSE LET k == Head(keys)
             built == BuildIndex(fs[k].names)
             zf == [key |-> k, names |-> fs[k].names, open |-> TRUE]
         IN  PreloadFrom(
                 IF fs[k].exists /\ fs[k].valid
                 THEN [handles |-> Append(acc.handles, zf),
                       zip_file_cache |->
                           DictPut(acc.zip_file_cache, k, Len(acc.handles) + 1),
                       zip_index_cache |-> DictPut(acc.zip_index_cache, k, built.index),
                       zip_file_mtime_cache |->
                           DictPut(acc.zip_file_mtime_cache, k, fs[k].mtime),
                       zip_file_count_cache |->
                           DictPut(acc.zip_file_count_cache, k, built.file_count)]
                 ELSE acc,
                 Tail(keys))

\* await preload_zip_indexes() of the lifespan: before the first request, the
\* caches being empty.
preload_zip_indexes ==
    /\ apiResp = StartApiResp
    /\ handles = <<>>
    /\ zip_file_cache = EmptyDict /\ zip_index_cache = EmptyDict
    /\ zip_file_mtime_cache = EmptyDict /\ zip_file_count_cache = EmptyDict
    /\ LET out == PreloadFrom(
                      [handles |-> handles, zip_file_cache |-> zip_file_cache,
                       zip_index_cache |-> zip_index_cache,
                       zip_file_mtime_cache |-> zip_file_mtime_cache,
                       zip_file_count_cache |-> zip_file_count_cache],
                      PreloadKeys)
       IN  /\ handles' = out.handles
           /\ zip_file_cache' = out.zip_file_cache
           /\ zip_index_cache' = out.zip_index_cache
           /\ zip_file_mtime_cache' = out.zip_file_mtime_cache
           /\ zip_file_count_cache' = out.zip_file_count_cache
    /\ UNCHANGED <<fs, apiResp>>

\* f.read(65536)
ChunkSize == 65536

\* The sizes in bytes of the entries of the archives.
SizeOf(name) ==
    IF name = <<"w1.mp3">> THEN 0
    ELSE IF name = <<"audios", "w1.mp3">> THEN 1
    ELSE IF name = <<"x", "w1.mp3">> THEN ChunkSize
    ELSE IF name = <<"w2.mp3">> THEN ChunkSize + 1
    ELSE 2 * ChunkSize + 5

VARIABLES
    stream,                \* the file_iterator of the last StreamingResponse
    pending                \* the get_zstd_decompressor calls suspended at an await
streamVars == <<stream, pending>>

\* The generator file_iterator(): not made, made and not started ("returned"),
\* suspended at its yield ("open"), finished ("done"), or ended by an exception
\* ("failed"); chunks are the chunks yielded, each the bytes [from, from + len)
\* of the entry.
Stream(st, handle, target, pos, chunks) ==
    [st |-> st, handle |-> handle, target |-> target, pos |-> pos, chunks |-> chunks]
NoStream == Stream("none", 0, <<>>, 0, <<>>)

\* A read that returns all the rest of the entry.
Read_whole(size, pos, n) == size - pos

\* f.read(n) of the ZipExtFile at pos of an entry of size bytes: the number of
\* bytes it returns.
Read(size, pos, n) == IF size - pos < n THEN size - pos ELSE n

\* get_file_from_zip with the generator its StreamingResponse is given.
StreamFile(k, file_path, atOpen) ==
    /\ stream.st \in {"none", "done", "failed"}
    /\ get_file_from_zip(k, file_path, atOpen)
    /\ stream' = IF apiResp'.status = 200
                 THEN Stream("returned", apiResp'.handle, apiResp'.target, 0, <<>>)
                 ELSE NoStream
    /\ UNCHANGED pending

\* The generator runs to its next yield or to its end: zf.open(target_path) when
\* it starts, which raises on a closed ZipFile, then f.read(65536).
file_iterator ==
    /\ stream.st \in {"returned", "open"}
    /\ IF stream.st = "returned" /\ ~handles[stream.handle].open
       THEN stream' = [stream EXCEPT !.st = "failed"]
       ELSE LET len == Read(SizeOf(stream.target), stream.pos, ChunkSize)
            IN  IF len = 0
                THEN stream' = [stream EXCEPT !.st = "done"]
                ELSE stream' = [stream EXCEPT
                                  !.st = "open",
                                  !.pos = stream.pos + len,
                                  !.chunks = Append(stream.chunks,
                                                 [from |-> stream.pos, len |-> len])]
    /\ UNCHANGED <<fs, handles, zipCaches, apiResp, pending>>

\* The authoring workflow replaces, touches or removes an archive.
Writer(k) ==
    /\ \E file \in Writes(fs[k]) : fs' = [fs EXCEPT ![k] = file]
    /\ UNCHANGED <<handles, zipCaches, apiResp>>

InitCaches ==
    /\ stream = NoStream
    /\ pending = {}
    /\ handles = <<>>
    /\ zip_file_cache = EmptyDict
    /\ zip_index_cache = EmptyDict
    /\ zip_file_mtime_cache = EmptyDict
    /\ zip_file_count_cache = EmptyDict
    /\ apiResp = StartApiResp

\* The API service starts on a DICTIONARIES_PATH without archives.
InitApi ==
    /\ fs = [k \in ZipKeys |-> NoFile(0)]
    /\ InitCaches

\* One archive of any content is in place before the service starts.
InitArchive ==
    /\ \E a \in AllArchives :
          fs = [k \in ZipKeys |-> IF k = "audios.zip" THEN File(1, TRUE, a)
                                  ELSE NoFile(0)]
    /\ InitCaches

(***************************************************************************)
(* The API service: the json_data of the entries                           *)
(***************************************************************************)
\* The training blobs of the dictionaries; "none" is a frame written, or a
\* decompressor made, without one.
Zdicts == {"none", "zd1", "zd2"}

\* What sqlite3 hands over for a json_data column: None, the bytes of a BLOB
\* (a zstd frame, a JSON text or anything else) or the str of a TEXT.
Frame(zd, payload) ==
    [type |-> "bytes", frame |-> TRUE, zdict |-> zd, payload |-> payload]
Plain(payload) ==
    [type |-> "bytes", frame |-> FALSE, zdict |-> "none", payload |-> payload]
Str(payload) ==
    [type |-> "str", frame |-> FALSE, zdict |-> "none", payload |-> payload]
None ==
    [type |-> "NoneType", frame |-> FALSE, zdict |-> "none", payload |-> "none"]
JsonData ==
    {None, Plain("json"), Plain("garbage"), Str("json")}
      \cup {Frame(zd, "json") : zd \in Zdicts}

\* A dictionary.db: the zstd_dict of its config table ("none": no such row)
\* and the json_data of its entries.
NoEntry ==
    [type |-> "<no row>", frame |-> FALSE, zdict |-> "none", payload |-> "none"]
NoDb == [exists |-> FALSE, zdict |-> "none", entries |-> [e \in EntryIds |-> NoEntry]]
Db(zd, rows) == [exists |-> TRUE, zdict |-> zd, entries |-> rows]
AllDbs == {Db(zd, rows) : zd \in Zdicts, rows \in [EntryIds -> JsonData \cup {NoEntry}]}

VARIABLES
    db,                    \* the dictionary.db of the dictionary d1
    zstd_decompressors,    \* _zstd_decompressors: dict_id -> decompressor
    db_connections         \* _db_connections: the dict_ids with a connection
dbVars == <<db, zstd_decompressors, db_connections>>

VARIABLES
    connections,    \* the aiosqlite connections opened so far
    conn_registry,  \* _db_connections ("db") and _media_db_connections
                    \* ("media"): cache_key -> index into connections
    connecting      \* the calls suspended at "await aiosqlite.connect(...)"
connVars == <<connections, conn_registry, connecting>>

\* dctx: None, or a ZstdDecompressor with or without a training blob.
NoDctx == [zdict |-> "<None>"]
ZstdDecompressor(zd) == [zdict |-> zd]

Raised(e) == [raised |-> TRUE, value |-> e]
Returned(v) == [raised |-> FALSE, value |-> v]

\* bytes(data)
PyBytes(data) ==
    IF data.type = "bytes" THEN Returned(data)
    ELSE Raised("TypeError: string argument without an encoding")

\* dctx.decompress(raw): a frame written with another training blob fails, or
\* decodes to other bytes when the frame names no dictionary.
ZstdDecompress(dctx, raw) ==
    IF ~raw.frame THEN {Raised("ZstdError")}
    ELSE IF raw.zdict \in {"none", dctx.zdict}
         THEN {Returned(Plain(raw.payload))}
         ELSE {Raised("ZstdError"), Returned(Plain("garbage"))}

\* The structured values of the entries, and json.dumps(v).encode("utf-8").
Values == {"doc", "doc2"}
JsonDumps(v) == Plain(IF v = "doc" THEN "json" ELSE "json2")

\* json.loads(raw)
JsonLoads(raw) ==
    IF raw.frame \/ raw.payload \notin {"json", "json2"}
    THEN Raised("JSONDecodeError")
    ELSE Returned(IF raw.payload = "json" THEN "doc" ELSE "doc2")

EmptyObject == "{}"

\* A decompress_json_data that gives {} when the decompression fails, without
\* parsing the bytes it was given.
decompress_json_data_no_fallback(data, dctx) ==
    IF data = None THEN {Returned(EmptyObject)}
    ELSE LET b == PyBytes(data)
         IN  IF b.raised THEN {b}
             ELSE IF dctx = NoDctx
             THEN {IF JsonLoads(b.value).raised THEN Returned(EmptyObject)
                   ELSE JsonLoads(b.value)}
             ELSE {IF z.raised \/ JsonLoads(z.value).raised
                   THEN Returned(EmptyObject) ELSE JsonLoads(z.value) :
                      z \in ZstdDecompress(dctx, b.value)}

\* decompress_json_data(data, dctx): the outcomes of one call.
decompress_json_data(data, dctx) ==
    IF data = None THEN {Returned(EmptyObject)}
    ELSE LET b == PyBytes(data)
         IN  IF b.raised THEN {b}
             ELSE LET raws == IF dctx # NoDctx
                              THEN {IF z.raised THEN b.value ELSE z.value :
                                      z \in ZstdDecompress(dctx, b.value)}
                              ELSE {b.value}
                  IN  {IF JsonLoads(raw).raised THEN Returned(EmptyObject)
                       ELSE JsonLoads(raw) : raw \in raws}

\* [decompress_json_data(row, dctx) for row in rows]
RECURSIVE DecompressRows(_, _)
DecompressRows(rows, dctx) ==
    IF rows = <<>> THEN {Returned(<<>>)}
    ELSE {IF o.raised THEN o
          ELSE IF rest.raised THEN rest
          ELSE Returned(<<o.value>> \o rest.value) :
             o \in decompress_json_data(Head(rows), dctx),
             rest \in DecompressRows(Tail(rows), dctx)}

\* await get_db_connection(dict_id), aiosqlite.connect succeeding or not: the
\* connection (or None) and the cache it leaves.
get_db_connection(d, connects) ==
    IF d \in db_connections THEN [conn |-> TRUE, cache |-> db_connections]
    ELSE IF db.exists /\ connects
    THEN [conn |-> TRUE, cache |-> db_connections \cup {d}]
    ELSE [conn |-> FALSE, cache |-> db_connections]

\* A get_zstd_decompressor that does not cache the plain decompressor.
get_zstd_decompressor_plain_uncached(d, conn) ==
    IF d \in DOMAIN zstd_decompressors
    THEN [dctx |-> zstd_decompressors[d], cache |-> zstd_decompressors]
    ELSE IF ~conn THEN [dctx |-> NoDctx, cache |-> zstd_decompressors]
    ELSE LET dctx == ZstdDecompressor(db.zdict)
         IN  [dctx |-> dctx,
              cache |-> IF db.zdict = "none" THEN zstd_decompressors
                        ELSE DictPut(zstd_decompressors, d, dctx)]

\* await get_zstd_decompressor(dict_id), get_db_connection returning a
\* connection or None: the decompressor and the cache it leaves.
get_zstd_decompressor(d, conn) ==
    IF d \in DOMAIN zstd_decompressors
    THEN [dctx |-> zstd_decompressors[d], cache |-> zstd_decompressors]
    ELSE IF ~conn THEN [dctx |-> NoDctx, cache |-> zstd_decompressors]
    ELSE LET dctx == ZstdDecompressor(db.zdict)
         IN  [dctx |-> dctx, cache |-> DictPut(zstd_decompressors, d, dctx)]

EntryResponse(op, d, status, body) ==
    [op |-> op, key |-> d, status |-> status, index |-> EmptyDict,
     rebuilt |-> FALSE, mtime |-> 0, path |-> <<>>, target |-> <<>>,
     handle |-> 0, body |-> body]

\* GET /entry/{dict_id}/{entry_id}; the response records the id asked in path.
query_entry(d, entry_id, connects) ==
    LET c == get_db_connection(d, connects)
        Resp(status, body) ==
            [EntryResponse("query_entry", d, status, body) EXCEPT !.path = <<entry_id>>]
    IN  /\ db_connections' = c.cache
        /\ IF ~c.conn \/ db.entries[entry_id] = NoEntry
           THEN /\ apiResp' = Resp(404, <<>>)
                /\ UNCHANGED zstd_decompressors
           ELSE LET got == get_zstd_decompressor(d, c.conn)
                IN  /\ zstd_decompressors' = got.cache
                    /\ \E out \in decompress_json_data(db.entries[entry_id], got.dctx) :
                          apiResp' = IF out.raised THEN Resp(500, <<>>)
                                     ELSE Resp(200, <<out.value>>)

\* POST /download/{dict_id}/entries; the response records the ids asked in path.
\* get_zstd_decompressor asks for a connection only when it misses its cache.
download_entries_batch(d, entry_ids, connects) ==
    LET found == SelectSeq(entry_ids, LAMBDA e : db.entries[e] # NoEntry)
        rows == [i \in DOMAIN found |-> db.entries[found[i]]]
        Resp(status, body) ==
            [EntryResponse("download_entries_batch", d, status, body)
                EXCEPT !.path = entry_ids]
    IN  IF ~db.exists
        THEN /\ apiResp' = Resp(404, <<>>)
             /\ UNCHANGED <<zstd_decompressors, db_connections>>
        ELSE IF entry_ids = <<>>
        THEN /\ apiResp' = Resp(400, <<>>)
             /\ UNCHANGED <<zstd_decompressors, db_connections>>
        ELSE LET c == IF d \in DOMAIN zstd_decompressors
                      THEN [conn |-> TRUE, cache |-> db_connections]
                      ELSE get_db_connection(d, connects)
                 got == get_zstd_decompressor(d, c.conn)
             IN  /\ db_connections' = c.cache
                 /\ zstd_decompressors' = got.cache
                 /\ IF rows = <<>>
                    THEN apiResp' = Resp(404, <<>>)
                    ELSE \E out \in DecompressRows(rows, got.dctx) :
                            apiResp' = IF out.raised THEN Resp(500, <<>>)
                                       ELSE Resp(200, out.value)

\* A compress_entry that seeds the compressor with another training blob.
compress_entry_other_blob(data, zdict_bytes) ==
    Frame(IF zdict_bytes = "zd1" THEN "zd2" ELSE "zd1", data.payload)

\* compress_entry(data, zdict_bytes) of the user service: a frame of data,
\* written with the training blob when there is one.
compress_entry(data, zdict_bytes) == Frame(zdict_bytes, data.payload)

\* _get_zstd_dict(db_path): the zstd_dict of the config table, or None.
_get_zstd_dict(database) == IF database.exists THEN database.zdict ELSE "none"

\* upsert_entry_in_db(db_path, entry_json) for the entry entry_id with the
\* content v: the row is inserted or updated with the compressed JSON.
upsert_entry_in_db(entry_id, v) ==
    /\ db.exists
    /\ db' = [db EXCEPT !.entries[entry_id] =
                  compress_entry(JsonDumps(v), _get_zstd_dict(db))]
    /\ UNCHANGED <<zstd_decompressors, db_connections, apiResp>>

\* The dictionary.db files the authors upload: every entry is compressed with
\* the training blob of the file.
UploadedRows(zd) ==
    [EntryIds -> {NoEntry} \cup {compress_entry(JsonDumps(v), zd) : v \in Values}]
UploadedDbs == UNION {{Db(zd, rows) : rows \in UploadedRows(zd)} : zd \in Zdicts}

\* create_dict and update_dict write the uploaded dictionary.db over the one
\* in place: (target_dir / "dictionary.db").write_bytes(data).
write_dictionary_db(file) ==
    /\ db' = file
    /\ UNCHANGED <<zstd_decompressors, db_connections, apiResp>>

\* get_zstd_decompressor(dict_id) from its start to its last await, on a
\* miss of the cache with a connection: the call has read the zstd_dict row
\* and is suspended at "await cursor.close()".
get_zstd_decompressor_miss(d) ==
    LET c == get_db_connection(d, TRUE)
    IN  /\ d \notin DOMAIN zstd_decompressors
        /\ c.conn
        /\ db_connections' = c.cache
        /\ pending' = pending \cup {[dict_id |-> d, zdict |-> db.zdict]}
        /\ UNCHANGED <<db, zstd_decompressors, apiResp, stream>>

\* The call resumes: it makes the decompressor from the row it read and
\* stores it, _zstd_decompressors[dict_id] = dctx.
get_zstd_decompressor_store(call) ==
    /\ call \in pending
    /\ pending' = pending \ {call}
    /\ zstd_decompressors' =
          DictPut(zstd_decompressors, call.dict_id, ZstdDecompressor(call.zdict))
    /\ UNCHANGED <<db, db_connections, apiResp, stream>>

\* The authoring workflow puts a dictionary.db in place.
DbWriter ==
    /\ db' \in AllDbs
    /\ UNCHANGED <<zstd_decompressors, db_connections, apiResp>>

InitDb ==
    /\ db = NoDb
    /\ zstd_decompressors = EmptyDict
    /\ db_connections = {}
    /\ connections = <<>>
    /\ conn_registry = [db |-> EmptyDict, media |-> EmptyDict]
    /\ connecting = {}

\* The versions a request may name.
Versions == 0..3

\* The uploads of update_dict (the metadata.json it carries being valid, invalid
\* or no JSON) and of upsert_dict_entries (a .zst of lines, or another file).
UpdateInputs ==
    {in \in UploadSets \X {"ok", "invalid", "unparsable"} :
        in[2] = "ok" \/ "metadata.json" \in in[1]}
UpsertInputs ==
    {in \in BOOLEAN \X Uploads : in[1] \/ in[2] = <<>>}

\* The requests that change a dictionary, from the users US with the messages
\* MS, the INSERTs into version_history failing as FP says.
Uploading(US, MS, FP) ==
    \/ \E u \in US, d \in DictIds, media \in BOOLEAN, m \in MS, failAt \in FP :
          create_dict(u, d, media, m, failAt) /\ UNCHANGED <<apiVars, dbVars, streamVars, connVars>>
    \/ \E u \in US, d \in DictIds : delete_dict(u, d) /\ UNCHANGED <<apiVars, dbVars, streamVars, connVars>>
    \/ \E u \in US, d \in DictIds, m \in MS, in \in UpdateInputs, failAt \in FP :
          update_dict(u, d, m, in[1], in[2], failAt) /\ UNCHANGED <<apiVars, dbVars, streamVars, connVars>>
    \/ \E u \in US, d \in DictIds, m \in MS, in \in UpsertInputs, failAt \in FP :
          upsert_dict_entries(u, d, m, in[1], in[2], failAt) /\ UNCHANGED <<apiVars, dbVars, streamVars, connVars>>

\* The update queries for the dictionaries DS.
Syncing(DS) ==
    \E d \in DS, from_ver \in Versions,
       to_ver \in {SqlNull} \cup {SqlVal(v) : v \in Versions} :
       get_updates(d, from_ver, to_ver) /\ UNCHANGED <<apiVars, dbVars, streamVars, connVars>>

vars == <<userVars, apiVars, dbVars, streamVars, connVars>>

Init == InitUser /\ InitApi /\ InitDb

\* The user service with every INSERT succeeding.
Next == Uploading(Users, {"m1"}, {0})
Spec == Init /\ [][Next]_vars

\* The user service of one user whose INSERTs into version_history may raise.
NextFail ==
    \/ \E media \in BOOLEAN, failAt \in FailPoints :
          create_dict("u1", "d1", media, "m1", failAt)
              /\ UNCHANGED <<apiVars, dbVars, streamVars, connVars>>
    \/ delete_dict("u1", "d1") /\ UNCHANGED <<apiVars, dbVars, streamVars, connVars>>
    \/ \E in \in UpdateInputs, failAt \in FailPoints :
          update_dict("u1", "d1", "m1", in[1], in[2], failAt)
              /\ UNCHANGED <<apiVars, dbVars, streamVars, connVars>>
    \/ \E in \in UpsertInputs, failAt \in FailPoints :
          upsert_dict_entries("u1", "d1", "m1", in[1], in[2], failAt)
              /\ UNCHANGED <<apiVars, dbVars, streamVars, connVars>>
SpecFail == Init /\ [][NextFail]_vars

\* The requests of two users on one dictionary, every INSERT succeeding.
NextOwner ==
    \/ \E u \in Users, media \in BOOLEAN :
          create_dict(u, "d1", media, "m1", 0)
              /\ UNCHANGED <<apiVars, dbVars, streamVars, connVars>>
    \/ \E u \in Users :
          delete_dict(u, "d1") /\ UNCHANGED <<apiVars, dbVars, streamVars, connVars>>
    \/ \E u \in Users, in \in UpdateInputs :
          update_dict(u, "d1", "m1", in[1], in[2], 0)
              /\ UNCHANGED <<apiVars, dbVars, streamVars, connVars>>
    \/ \E u \in Users, in \in UpsertInputs :
          upsert_dict_entries(u, "d1", "m1", in[1], in[2], 0)
              /\ UNCHANGED <<apiVars, dbVars, streamVars, connVars>>
SpecOwner == Init /\ [][NextOwner]_vars

\* The requests of the owner of one dictionary with well-formed uploads, an
\* update_dict without any file among them.
NextUpdate ==
    \/ \E media \in BOOLEAN :
          create_dict("u1", "d1", media, "m1", 0)
              /\ UNCHANGED <<apiVars, dbVars, streamVars, connVars>>
    \/ \E in \in {x \in UpdateInputs : x[2] = "ok"}, m \in Messages :
          update_dict("u1", "d1", m, in[1], in[2], 0)
              /\ UNCHANGED <<apiVars, dbVars, streamVars, connVars>>
    \/ \E in \in UpsertInputs :
          upsert_dict_entries("u1", "d1", "m1", in[1], in[2], 0)
              /\ UNCHANGED <<apiVars, dbVars, streamVars, connVars>>
SpecUpdate == Init /\ [][NextUpdate]_vars

\* The dictionary.db the loop of upsert_dict_entries leaves, from line i on,
\* with n INSERTs into version_history already done: upsert_entry_in_db runs
\* for each entry before its record_version.  An entry without entry_id is
\* inserted with a NULL entry_id, a row no id of EntryIds reads.
RECURSIVE UpsertStore(_, _, _, _, _, _)
UpsertStore(database, lines, i, n, failAt, v) ==
    IF i > Len(lines) THEN database
    ELSE IF lines[i].kind = "blank"
    THEN UpsertStore(database, lines, i + 1, n, failAt, v)
    ELSE IF lines[i].kind = "bad" THEN database
    ELSE IF lines[i].entry_id = SqlNull
    THEN UpsertStore(database, lines, i + 1, n, failAt, v)
    ELSE LET stored == [database EXCEPT !.entries[PyInt(lines[i].entry_id)] =
                           compress_entry(JsonDumps(v), _get_zstd_dict(database))]
         IN  IF failAt = n + 1 THEN stored
             ELSE UpsertStore(stored, lines, i + 1, n + 1, failAt, v)

\* POST /user/dicts/{dict_id}/entries with the dictionary.db it writes: the
\* lines of the upload carry the value v.
upsert_dict_entries_store(u, d, m, zst, lines, failAt, v) ==
    /\ upsert_dict_entries(u, d, m, zst, lines, failAt)
    /\ db' = IF /\ dicts[d] # NoRow /\ dicts[d].user_id = u
                /\ disk[d] # NoDir /\ "dictionary.db" \in disk[d] /\ zst
             THEN UpsertStore(db, lines, 1, 0, failAt, v)
             ELSE db
    /\ UNCHANGED <<zstd_decompressors, db_connections>>

\* The dictionary d1 of u1 as create_dict left it, its dictionary.db without
\* entries yet, with or without a training blob.
InitBatch ==
    /\ ledger = RecordFiles(<<>>, "d1", 1, "m1",
                            <<"metadata.json", "dictionary.db", "logo.png">>,
                            0, 0).ledger
    /\ dicts = [d \in DictIds |-> IF d = "d1"
                                  THEN [user_id |-> "u1", has_media |-> FALSE]
                                  ELSE NoRow]
    /\ disk = [d \in DictIds |-> IF d = "d1"
                                 THEN {"metadata.json", "dictionary.db", "logo.png"}
                                 ELSE NoDir]
    /\ issued = [d \in DictIds |-> IF d = "d1" THEN 1 ELSE 0]
    /\ resp = StartResp
    /\ InitApi
    /\ db \in {Db(zd, [e \in EntryIds |-> NoEntry]) : zd \in Zdicts}
    /\ zstd_decompressors = EmptyDict
    /\ db_connections = {}
    /\ connections = <<>>
    /\ conn_registry = [db |-> EmptyDict, media |-> EmptyDict]
    /\ connecting = {}

\* The entry uploads of its owner to d1, and the entry queries.
NextBatch ==
    \/ \E in \in UpsertInputs, failAt \in FailPoints, v \in Values :
          upsert_dict_entries_store("u1", "d1", "m1", in[1], in[2], failAt, v)
              /\ UNCHANGED <<apiVars, streamVars, connVars>>
    \/ \E entry_id \in EntryIds :
          /\ query_entry("d1", entry_id, TRUE)
          /\ UNCHANGED <<userVars, streamVars, connVars, fs, handles, zipCaches, db>>
SpecBatch == InitBatch /\ [][NextBatch]_vars

\* The user service of one user, with the update queries for one of its
\* dictionaries.
NextSync == Uploading({"u1"}, {"m1"}, {0}) \/ Syncing({"d1"})
SpecSync == Init /\ [][NextSync]_vars

\* The ledger of the dictionary d1 as three batches wrote it: two files, two
\* entries, then dictionary.db again.
EnFr ==
    <<Row("d1", 1, "m1", "file", "metadata.json", SqlNull),
      Row("d1", 1, "m1", "file", "dictionary.db", SqlNull),
      Row("d1", 2, "m2", "entry", "dictionary.db", SqlVal(42)),
      Row("d1", 2, "m2", "entry", "dictionary.db", SqlVal(43)),
      Row("d1", 3, "m1", "file", "dictionary.db", SqlNull)>>

\* Rows of another dictionary that share the ledger.
OtherRows ==
    <<Row("d2", 1, "m1", "file", "logo.png", SqlNull),
      Row("d2", 2, "m1", "entry", "dictionary.db", SqlVal(42))>>

\* Later batches of entries: 43 and 42, then 43 again.
Patches ==
    <<Row("d1", 4, "m1", "entry", "dictionary.db", SqlVal(43)),
      Row("d1", 4, "m1", "entry", "dictionary.db", SqlVal(42)),
      Row("d1", 5, "m1", "entry", "dictionary.db", SqlVal(43))>>

\* That ledger as it grew, alone or among the rows of the other dictionary.
ManifestLedgers ==
    {SubSeq(EnFr \o Patches, 1, n) : n \in 0..Len(EnFr \o Patches)}
      \cup {OtherRows \o EnFr, <<OtherRows[1]>> \o EnFr \o <<OtherRows[2]>>,
            OtherRows \o EnFr \o Patches}

\* The update queries on a stored ledger.
InitManifest ==
    /\ ledger \in ManifestLedgers
    /\ dicts = [d \in DictIds |-> [user_id |-> "u1", has_media |-> FALSE]]
    /\ disk = [d \in DictIds |-> {"metadata.json", "dictionary.db", "logo.png"}]
    /\ issued = [d \in DictIds |-> PyOr0(SelectMaxVersion(ledger, d))]
    /\ resp = StartResp
    /\ InitApi
    /\ InitDb
NextManifest == Syncing(DictIds)
SpecManifest == InitManifest /\ [][NextManifest]_vars

\* The requests for the media of the archives KS, with the external writer.
Serving(KS) ==
    \/ \E k \in KS : \E atOpen \in AtOpen(k) :
          GetZipIndex(k, atOpen) /\ UNCHANGED <<userVars, dbVars, streamVars, connVars>>
    \/ \E k \in KS, file_path \in RequestPaths : \E atOpen \in AtOpen(k) :
          get_file_from_zip(k, file_path, atOpen) /\ UNCHANGED <<userVars, dbVars, streamVars, connVars>>
    \/ \E k \in KS : Writer(k) /\ UNCHANGED <<userVars, dbVars, streamVars, connVars>>

NextZip == Serving({"audios.zip"})
SpecZip == Init /\ [][NextZip]_vars

\* The index of each archive of AllArchives, with no writer.
InitIndex == InitUser /\ InitArchive /\ InitDb
NextIndex ==
    \/ \E k \in ZipKeys : GetZipIndex(k, fs[k]) /\ UNCHANGED <<userVars, dbVars, streamVars, connVars>>
    \/ \E k \in ZipKeys, file_path \in RequestPaths :
          get_file_from_zip(k, file_path, fs[k]) /\ UNCHANGED <<userVars, dbVars, streamVars, connVars>>
SpecIndex == InitIndex /\ [][NextIndex]_vars

\* The media of one archive streamed to a client, with other requests and the
\* writer between the steps of the generator.
NextStream ==
    \/ \E file_path \in RequestPaths : \E atOpen \in AtOpen("audios.zip") :
          StreamFile("audios.zip", file_path, atOpen) /\ UNCHANGED <<userVars, dbVars, connVars>>
    \/ file_iterator /\ UNCHANGED <<userVars, dbVars, connVars>>
    \/ \E atOpen \in AtOpen("audios.zip") :
          GetZipIndex("audios.zip", atOpen) /\ UNCHANGED <<userVars, dbVars, streamVars, connVars>>
    \/ Writer("audios.zip") /\ UNCHANGED <<userVars, dbVars, streamVars, connVars>>
SpecStream == Init /\ [][NextStream]_vars

\* The service started with or without the preload of the indexes, then the
\* requests for the media and the counts of one archive, with the writer.
NextPreload ==
    \/ preload_zip_indexes /\ UNCHANGED <<userVars, dbVars, streamVars, connVars>>
    \/ \E atOpen \in AtOpen("audios.zip") :
          count_files_in_zip_index("audios.zip", atOpen) /\ UNCHANGED <<userVars, dbVars, streamVars, connVars>>
    \/ Serving({"audios.zip"})
SpecPreload == InitIndex /\ [][NextPreload]_vars

\* The queries of the entries of the dictionary d1.
IdLists == {<<>>, <<42>>, <<43>>, <<42, 43>>}
NextCodec ==
    \/ \E entry_id \in EntryIds, connects \in BOOLEAN :
          /\ query_entry("d1", entry_id, connects)
          /\ UNCHANGED <<userVars, streamVars, connVars, fs, handles, zipCaches, db>>
    \/ \E entry_ids \in IdLists, connects \in BOOLEAN :
          /\ download_entries_batch("d1", entry_ids, connects)
          /\ UNCHANGED <<userVars, streamVars, connVars, fs, handles, zipCaches, db>>
    \/ DbWriter /\ UNCHANGED <<userVars, streamVars, connVars, fs, handles, zipCaches>>
SpecCodec == Init /\ [][NextCodec]_vars

\* The entries of the dictionary d1 written by the user service and read by
\* the API service.
NextStore ==
    \/ \E file \in UploadedDbs :
          write_dictionary_db(file) /\ UNCHANGED <<userVars, streamVars, connVars, fs, handles, zipCaches>>
    \/ \E entry_id \in EntryIds, v \in Values :
          upsert_entry_in_db(entry_id, v) /\ UNCHANGED <<userVars, streamVars, connVars, fs, handles, zipCaches>>
    \/ \E entry_id \in EntryIds :
          /\ query_entry("d1", entry_id, TRUE)
          /\ UNCHANGED <<userVars, streamVars, connVars, fs, handles, zipCaches, db>>
    \/ \E entry_ids \in IdLists :
          /\ download_entries_batch("d1", entry_ids, TRUE)
          /\ UNCHANGED <<userVars, streamVars, connVars, fs, handles, zipCaches, db>>
SpecStore == Init /\ [][NextStore]_vars

\* The calls of get_zstd_decompressor for the dictionary d1 that miss the
\* cache, interleaved at their awaits, and the uploads of its dictionary.db.
NextMiss ==
    \/ \E file \in UploadedDbs :
          write_dictionary_db(file) /\ UNCHANGED <<userVars, streamVars, connVars, fs, handles, zipCaches>>
    \/ get_zstd_decompressor_miss("d1") /\ UNCHANGED <<userVars, connVars, fs, handles, zipCaches>>
    \/ \E call \in pending :
          get_zstd_decompressor_store(call) /\ UNCHANGED <<userVars, connVars, fs, handles, zipCaches>>
SpecMiss == Init /\ [][NextMiss]_vars

\* A teardown that clears the caches and closes no ZipFile.
\* "for conn in _db_connections.values()" and "for conn in
\* _media_db_connections.values()": the connections the registries hold.
Registered(i) ==
    \E w \in {"db", "media"} :
       \E k \in DOMAIN conn_registry[w] : conn_registry[w][k] = i

lifespan_teardown_no_close ==
    /\ handles' = handles
    /\ zip_file_cache' = EmptyDict /\ zip_index_cache' = EmptyDict
    /\ zip_file_count_cache' = EmptyDict /\ zip_file_mtime_cache' = EmptyDict
    /\ zstd_decompressors' = EmptyDict
    /\ apiResp' = [StartApiResp EXCEPT !.op = "shutdown"]
    /\ UNCHANGED <<fs, db, db_connections, connVars>>

\* The lifespan after its yield: the connections are closed, every cached
\* ZipFile is closed, the ZIP caches and the decompressor cache are cleared.
lifespan_teardown ==
    /\ handles' = [i \in DOMAIN handles |->
                      IF \E k \in DOMAIN zip_file_cache : zip_file_cache[k] = i
                      THEN [handles[i] EXCEPT !.open = FALSE] ELSE handles[i]]
    /\ zip_file_cache' = EmptyDict /\ zip_index_cache' = EmptyDict
    /\ zip_file_count_cache' = EmptyDict /\ zip_file_mtime_cache' = EmptyDict
    /\ zstd_decompressors' = EmptyDict
    /\ apiResp' = [StartApiResp EXCEPT !.op = "shutdown"]
    /\ connections' = [i \in DOMAIN connections |->
                          IF Registered(i)
                          THEN [connections[i] EXCEPT !.closed = TRUE]
                          ELSE connections[i]]
    /\ UNCHANGED <<fs, db, db_connections, conn_registry, connecting>>

\* The dictionary.db files in place during the life of the service.
LifespanDbs ==
    {Db(zd, [e \in EntryIds |-> IF e = 42 THEN compress_entry(JsonDumps("doc"), zd)
                                ELSE NoEntry]) : zd \in {"none", "zd1"}}

\* The life of the API service: the preload, the requests, the teardown.
NextLifespan ==
    /\ apiResp.op # "shutdown"
    /\ \/ preload_zip_indexes /\ UNCHANGED <<userVars, dbVars, streamVars, connVars>>
       \/ Serving({"audios.zip"})
       \/ \E file \in LifespanDbs :
             write_dictionary_db(file) /\ UNCHANGED <<userVars, streamVars, connVars, fs, handles, zipCaches>>
       \/ /\ query_entry("d1", 42, TRUE)
          /\ UNCHANGED <<userVars, streamVars, connVars, fs, handles, zipCaches, db>>
       \/ lifespan_teardown /\ UNCHANGED <<userVars, streamVars>>
SpecLifespan == Init /\ [][NextLifespan]_vars

\* cache_key = dict_id, and cache_key = f"media_{dict_id}".
CacheKey(which, d) ==
    IF which = "db" THEN d ELSE IF d = "d1" THEN "media_d1" ELSE "media_d2"

\* db_path.exists() and media_db_path.exists(), in DICTIONARIES_PATH/<dict_id>.
DbFileExists(which, d) ==
    IF which = "db" THEN d = "d1" /\ db.exists
    ELSE disk[d] # NoDir /\ "media.db" \in disk[d]

\* The requests in flight.
Callers == {1, 2}

\* get_db_connection(dict_id) and get_media_db_connection(dict_id) from their
\* start to "await aiosqlite.connect(...)", on a miss of the registry with the
\* file in place.  A hit and a missing file return at once and change nothing.
get_db_connection_miss(which, d, caller) ==
    /\ CacheKey(which, d) \notin DOMAIN conn_registry[which]
    /\ DbFileExists(which, d)
    /\ \A c \in connecting : c.caller # caller
    /\ Len(connections) + Cardinality(connecting) < MaxConnections
    /\ connecting' = connecting \cup
          {[which |-> which, key |-> CacheKey(which, d), caller |-> caller]}
    /\ UNCHANGED <<connections, conn_registry>>

\* The call resumes: aiosqlite.connect raised and the call returns None, or
\* it gave a connection, which the call stores under its key and returns.
get_db_connection_store(call, raised) ==
    /\ call \in connecting
    /\ connecting' = connecting \ {call}
    /\ IF raised
       THEN UNCHANGED <<connections, conn_registry, db_connections>>
       ELSE /\ connections' = Append(connections,
                  [which |-> call.which, key |-> call.key, closed |-> FALSE])
            /\ conn_registry' =
                  [conn_registry EXCEPT ![call.which] =
                      DictPut(conn_registry[call.which], call.key,
                              Len(connections) + 1)]
            /\ db_connections' = IF call.which = "db"
                                 THEN db_connections \cup {call.key}
                                 ELSE db_connections
    /\ UNCHANGED <<db, zstd_decompressors>>

\* The dictionary d1 of u1 as create_dict left it with a media.db, and its
\* dictionary.db.
InitConn ==
    /\ ledger = RecordFiles(<<>>, "d1", 1, "m1",
                            <<"metadata.json", "dictionary.db", "logo.png",
                              "media.db">>, 0, 0).ledger
    /\ dicts = [d \in DictIds |-> IF d = "d1"
                                  THEN [user_id |-> "u1", has_media |-> TRUE]
                                  ELSE NoRow]
    /\ disk = [d \in DictIds |-> IF d = "d1"
                                 THEN {"metadata.json", "dictionary.db",
                                       "logo.png", "media.db"}
                                 ELSE NoDir]
    /\ issued = [d \in DictIds |-> IF d = "d1" THEN 1 ELSE 0]
    /\ resp = StartResp
    /\ InitApi
    /\ db \in LifespanDbs
    /\ zstd_decompressors = EmptyDict
    /\ db_connections = {}
    /\ connections = <<>>
    /\ conn_registry = [db |-> EmptyDict, media |-> EmptyDict]
    /\ connecting = {}

\* The requests that ask for a connection of d1, two at a time, and the
\* teardown.
NextConn ==
    /\ apiResp.op # "shutdown"
    /\ \/ \E which \in {"db", "media"}, caller \in Callers :
             get_db_connection_miss(which, "d1", caller)
                 /\ UNCHANGED <<userVars, apiVars, dbVars, streamVars>>
       \/ \E call \in connecting, raised \in BOOLEAN :
             get_db_connection_store(call, raised)
                 /\ UNCHANGED <<userVars, apiVars, streamVars>>
       \/ lifespan_teardown /\ UNCHANGED <<userVars, streamVars>>
SpecConn == InitConn /\ [][NextConn]_vars

(***************************************************************************)
(* Properties of the ledger and of the update manifest                     *)
(***************************************************************************)
Range(q) == {q[i] : i \in DOMAIN q}

RowsOf(d) == {i \in DOMAIN ledger : ledger[i].dict_id = d}

BatchOps == {"create_dict", "update_dict", "upsert_dict_entries"}
BatchOk(r) == r.op \in BatchOps /\ r.status = 200

\* The rows an update query (d, f, t] is about.
WindowRows(d, f, t) ==
    {i \in RowsOf(d) : ledger[i].version > f /\ ledger[i].version <= t}

\* Row i is handled before row j: lower version first, then rowid.
Before(i, j) ==
    \/ ledger[i].version < ledger[j].version
    \/ ledger[i].version = ledger[j].version /\ i < j

IsDbFile(i) ==
    ledger[i].change_type = "file" /\ ledger[i].file_name = "dictionary.db"

EntriesAfterLastDb(d, f, t) ==
    {ledger[i].entry_id[1] :
        i \in {k \in WindowRows(d, f, t) :
                 /\ ledger[k].change_type = "entry"
                 /\ \A j \in WindowRows(d, f, t) : IsDbFile(j) => Before(j, k)}}

SyncOk == resp.op = "get_updates" /\ resp.status = 200

\* C1: the entries of a manifest are exactly the ids of the entry records of
\* the window that are handled after the window's last dictionary.db file
\* record (all its entry records when it has no such file record).
C1_EntriesAfterLastDbFile ==
    SyncOk => Range(resp.required.entries)
                 = EntriesAfterLastDb(resp.dict_id, resp.from_ver, resp.version)

\* A query whose window holds an entry record, then a dictionary.db file
\* record, then an entry record of another id: the manifest has the later id
\* and not the earlier one.
C1_Witness ==
    /\ SyncOk
    /\ resp.required.entries # <<>>
    /\ \E i, j \in WindowRows(resp.dict_id, resp.from_ver, resp.version) :
          /\ ledger[i].change_type = "entry" /\ IsDbFile(j) /\ Before(i, j)
          /\ ledger[i].entry_id[1] \notin Range(resp.required.entries)

\* The rows of dictionary d in the ledger, in rowid order.
LedgerOf(d) == SelectSeq(ledger, LAMBDA r : r.dict_id = d)

Query(f, t) == SyncOk /\ resp.dict_id = "d1" /\ resp.from_ver = f /\ resp.version = t

\* C11: with the ledger of d1 equal to EnFr, the manifest of (0,2] is the two
\* files (sorted) with the entries 42, 43; the manifest of (0,3] is the same
\* files without entries; the manifest of (2,3] is dictionary.db without
\* entries.
C11_EnFrScenario ==
    LedgerOf("d1") = EnFr =>
       /\ Query(0, 2) => resp.required =
             [files |-> <<"dictionary.db", "metadata.json">>, entries |-> <<42, 43>>]
       /\ Query(0, 3) => resp.required =
             [files |-> <<"dictionary.db", "metadata.json">>, entries |-> <<>>]
       /\ Query(2, 3) => resp.required =
             [files |-> <<"dictionary.db">>, entries |-> <<>>]

\* C11 witness: the query (0,3] on that ledger among rows of d2 has been
\* answered, the entries of version 2 cleared.
C11_Witness ==
    /\ LedgerOf("d1") = EnFr /\ LedgerOf("d2") # <<>>
    /\ Query(0, 3) /\ ~resp.to_omitted
    /\ resp.required.entries = <<>>

\* The file names in the order of sorted().
Alphabetical == <<"dictionary.db", "logo.png", "media.db", "metadata.json">>
Precedes(a, b) ==
    \E i, j \in DOMAIN Alphabetical :
       i < j /\ Alphabetical[i] = a /\ Alphabetical[j] = b

FileTargets(d, f, t) ==
    {ledger[i].file_name :
        i \in {k \in WindowRows(d, f, t) : ledger[k].change_type = "file"}}

\* C12: the files of a manifest are the file names of the file records of the
\* dictionary with from < version <= to, each once, in sorted order.
C12_FilesOfTheWindow ==
    SyncOk =>
       LET files == resp.required.files
       IN  /\ Range(files) = FileTargets(resp.dict_id, resp.from_ver, resp.version)
           /\ \A i, j \in DOMAIN files : i < j => Precedes(files[i], files[j])

\* C12 witness: a manifest of two files whose window holds two records of one
\* file, leaves out a record of the dictionary, in a ledger where the other
\* dictionary has a file record in the same version range.
C12_Witness ==
    /\ SyncOk /\ Len(resp.required.files) = 2
    /\ \E i, j \in WindowRows(resp.dict_id, resp.from_ver, resp.version) :
          i # j /\ IsDbFile(i) /\ IsDbFile(j)
    /\ \E i \in DOMAIN ledger :
          /\ ledger[i].dict_id # resp.dict_id /\ ledger[i].change_type = "file"
          /\ ledger[i].version > resp.from_ver /\ ledger[i].version <= resp.version
          /\ ledger[i].file_name \notin Range(resp.required.files)
    /\ \E i \in RowsOf(resp.dict_id) : ledger[i].version > resp.version

\* The entry records of the window handled after its last dictionary.db file
\* record, and among them the first one of an entry id.
KeptEntryRows(d, f, t) ==
    {k \in WindowRows(d, f, t) :
        /\ ledger[k].change_type = "entry"
        /\ \A j \in WindowRows(d, f, t) : IsDbFile(j) => Before(j, k)}
FirstRowOf(id, d, f, t) ==
    CHOOSE k \in KeptEntryRows(d, f, t) :
       /\ ledger[k].entry_id[1] = id
       /\ \A j \in KeptEntryRows(d, f, t) :
             (j # k /\ ledger[j].entry_id[1] = id) => Before(k, j)

\* C13: the entries of a manifest hold no id twice and are in the order of the
\* first record of each id among the entry records that were not cleared.
C13_EntriesOnceInFirstSeenOrder ==
    SyncOk =>
       LET entries == resp.required.entries
           d == resp.dict_id
           f == resp.from_ver
           t == resp.version
       IN  /\ \A i, j \in DOMAIN entries : i # j => entries[i] # entries[j]
           /\ \A i, j \in DOMAIN entries :
                 i < j => Before(FirstRowOf(entries[i], d, f, t),
                                 FirstRowOf(entries[j], d, f, t))

\* C13 witness: a manifest with the entries 43, 42 whose window holds a second
\* record of 43 after the record of 42.
C13_Witness ==
    /\ SyncOk /\ resp.required.entries = <<43, 42>>
    /\ \E i, j \in KeptEntryRows(resp.dict_id, resp.from_ver, resp.version) :
          /\ Before(i, j)
          /\ ledger[i].entry_id = SqlVal(42) /\ ledger[j].entry_id = SqlVal(43)

\* The highest version among the ledger records of d; 0 when it has none.
CurrentMax(d) ==
    IF RowsOf(d) = {} THEN 0
    ELSE CHOOSE v \in {ledger[i].version : i \in RowsOf(d)} :
            \A i \in RowsOf(d) : ledger[i].version <= v

\* The versions a changelog lists.
HistoryVersions == {resp.history[i].v : i \in DOMAIN resp.history}

\* C14: an update query without to_ver is answered for the window that ends at
\* the dictionary's highest ledger version, its manifest and its changelog
\* computed for that window; with no ledger record the window ends at 0 and
\* both are empty.
C14_OmittedToIsCurrentMax ==
    (SyncOk /\ resp.to_omitted) =>
       LET d == resp.dict_id
           f == resp.from_ver
           mx == CurrentMax(d)
       IN  /\ resp.version = mx
           /\ Range(resp.required.files) = FileTargets(d, f, mx)
           /\ Range(resp.required.entries) = EntriesAfterLastDb(d, f, mx)
           /\ HistoryVersions = {ledger[i].version : i \in WindowRows(d, f, mx)}
           /\ RowsOf(d) = {} => resp.required = NoManifest /\ resp.history = <<>>

\* C14 witness: a query without to_ver on the dictionary d2, whose highest
\* version is 2 in a ledger that goes up to 5, answered with both.
C14_Witness ==
    /\ SyncOk /\ resp.to_omitted /\ resp.dict_id = "d2" /\ resp.from_ver = 0
    /\ resp.version = 2 /\ CurrentMax("d1") = 5
    /\ resp.required.entries = <<42>> /\ Len(resp.history) = 2

\* C15: the changelog of an update query lists the distinct (version, message)
\* pairs of the ledger records of the dictionary with from < version <= to,
\* each once, by ascending version; its versions are those of the records of
\* the window, from which the manifest is computed.
C15_ChangelogOfTheWindow ==
    SyncOk =>
       LET h == resp.history
           W == WindowRows(resp.dict_id, resp.from_ver, resp.version)
       IN  /\ {<<h[i].v, h[i].m>> : i \in DOMAIN h}
                 = {<<ledger[k].version, ledger[k].message>> : k \in W}
           /\ \A i, j \in DOMAIN h : i # j => h[i] # h[j]
           /\ \A i, j \in DOMAIN h : i < j => h[i].v <= h[j].v
           /\ HistoryVersions = {ledger[k].version : k \in W}
           /\ (resp.required.files # <<>> \/ resp.required.entries # <<>>)
                 => HistoryVersions # {}

\* C15 witness: a changelog of three versions with two messages, for a window
\* of five records.
C15_Witness ==
    /\ SyncOk /\ Len(resp.history) = 3
    /\ resp.history[1].m = "m1" /\ resp.history[2].m = "m2"
    /\ Cardinality(WindowRows(resp.dict_id, resp.from_ver, resp.version)) = 5

\* C6: the versions assigned to the successful batches of one dictionary are
\* strictly increasing: a successful batch gets a version above the one of
\* the dictionary's last successful batch.
C6_VersionsStrictlyIncrease ==
    [][BatchOk(resp') => resp'.version > issued[resp'.dict_id]]_vars

\* C7: a row of the ledger is never changed and never removed.
C7_LedgerAppendOnly ==
    [][/\ Len(ledger') >= Len(ledger)
       /\ \A i \in DOMAIN ledger : ledger'[i] = ledger[i]]_vars

\* A dictionary was deleted and the ledger still holds its rows.
C7_Witness ==
    /\ resp.op = "delete_dict" /\ resp.status = 200
    /\ RowsOf(resp.dict_id) # {}

\* C8: next_version(d) is 1 when d has no row, and else one more than the
\* highest version among the rows of d; rows of other dictionaries do not
\* count.
C8_NextVersionIsMaxPlusOne ==
    \A d \in DictIds :
        LET vs == {ledger[i].version : i \in RowsOf(d)}
            nv == next_version(ledger, d)
        IN  IF vs = {} THEN nv = 1
            ELSE (nv - 1) \in vs /\ \A v \in vs : v < nv

\* One dictionary is at version 2 or more while another has no row.
C8_Witness ==
    \E d, e \in DictIds :
        /\ RowsOf(e) = {}
        /\ \E i \in RowsOf(d) : ledger[i].version >= 2

\* C9: the rows one request appends all carry one version.
C9_BatchSharesOneVersion ==
    [][\A i, j \in (Len(ledger) + 1)..Len(ledger') :
          ledger'[i].version = ledger'[j].version]_vars

\* An update of two files has been recorded.
C9_Witness ==
    /\ resp.op = "update_dict" /\ resp.status = 200
    /\ Cardinality({i \in RowsOf(resp.dict_id) :
                       ledger[i].version = resp.version}) >= 2

\* C10: an update query with from_version >= to_version on a dictionary that
\* exists is answered without an error, with no file and no entry.
C10_EmptyWindowIsEmptyManifest ==
    (resp.op = "get_updates" /\ resp.from_ver >= resp.version) =>
        /\ disk[resp.dict_id] # NoDir => resp.status = 200
        /\ resp.status = 200 => resp.required = NoManifest

\* A query with from_version = to_version, the version of rows of the ledger.
C10_Witness ==
    /\ SyncOk
    /\ resp.from_ver = resp.version
    /\ \E i \in RowsOf(resp.dict_id) : ledger[i].version = resp.version

(***************************************************************************)
(* Properties of the ZIP index cache                                       *)
(***************************************************************************)
\* The request paths under which an entry is to be found: its full internal
\* path, its basename, and its path without the first and the first two segments.
KeysOf(name) ==
    {name, <<name[Len(name)]>>}
      \cup (IF Len(name) >= 2 THEN {SubSeq(name, 2, Len(name))} ELSE {})
      \cup (IF Len(name) >= 3 THEN {SubSeq(name, 3, Len(name))} ELSE {})

\* The archive a cached handle reads.
Opened(k) == handles[zip_file_cache[k]]

\* C2: once the index of an archive is built, every key of every non-directory
\* entry E of the archive (full path, basename, tail-1, tail-2) is in the path
\* map and resolves to E itself.
C2_EveryKeyResolvesToItsEntry ==
    \A k \in DOMAIN zip_file_cache :
       \A i \in DOMAIN Opened(k).names :
          LET E == Opened(k).names[i]
          IN  ~IsDir(E) =>
                 \A key \in KeysOf(E) :
                    key \in DOMAIN zip_index_cache[k] /\ zip_index_cache[k][key] = E

\* C3: a successful get_zip_index serves the cached path map without rebuilding
\* exactly when a handle is cached and the cached mtime equals the mtime it
\* reads; otherwise the old handle is closed, the map is built from the archive
\* as it is and cached; either way the cached mtime is the mtime read.
C3_StalenessProtocol ==
    [][\A k \in ZipKeys :
          ((\E atOpen \in AtOpen(k) : GetZipIndex(k, atOpen)) /\ apiResp'.status = 200)
          => LET served == handles' = handles
                 valid  == /\ k \in DOMAIN zip_file_cache
                           /\ k \in DOMAIN zip_file_mtime_cache
                           /\ zip_file_mtime_cache[k] = fs[k].mtime
             IN  /\ served <=> valid
                 /\ served => /\ apiResp'.index = zip_index_cache[k]
                              /\ UNCHANGED zipCaches
                 /\ ~served => /\ k \in DOMAIN zip_file_cache
                                    => ~handles'[zip_file_cache[k]].open
                               /\ apiResp'.index = BuildIndex(fs'[k].names).index
                 /\ zip_index_cache'[k] = apiResp'.index
                 /\ zip_file_mtime_cache'[k] = fs[k].mtime
                 /\ apiResp'.mtime = fs[k].mtime]_vars

\* C3 witness: a call found the archive changed, closed the handle of the
\* first build and cached a second build with the new mtime.
C3_Witness ==
    /\ apiResp.op = "get_zip_index" /\ apiResp.status = 200
    /\ Len(handles) >= 2 /\ ~handles[1].open
    /\ apiResp.key \in DOMAIN zip_file_cache
    /\ Opened(apiResp.key).open
    /\ zip_file_mtime_cache[apiResp.key] = fs[apiResp.key].mtime
    /\ fs[apiResp.key].mtime >= 2

\* C4: for every archive, the cached handle, path map, entry count and mtime
\* are all absent, or all present and the map and the count are those built
\* from the archive the cached (open) handle reads.
C4_CacheFieldsFromOneBuild ==
    \A k \in ZipKeys :
       LET in4 == {k \in DOMAIN zip_file_cache, k \in DOMAIN zip_index_cache,
                   k \in DOMAIN zip_file_mtime_cache,
                   k \in DOMAIN zip_file_count_cache}
       IN  \/ in4 = {FALSE}
           \/ /\ in4 = {TRUE}
              /\ Opened(k).open
              /\ zip_index_cache[k] = BuildIndex(Opened(k).names).index
              /\ zip_file_count_cache[k] = BuildIndex(Opened(k).names).file_count

\* The derived keys of an entry: its basename, and its path without the first
\* and the first two segments.
DerivedKeysOf(name) ==
    {<<name[Len(name)]>>}
      \cup (IF Len(name) >= 2 THEN {SubSeq(name, 2, Len(name))} ELSE {})
      \cup (IF Len(name) >= 3 THEN {SubSeq(name, 3, Len(name))} ELSE {})

\* The places in the archive of the file entries that derive key.
Contenders(names, key) ==
    {i \in DOMAIN names : ~IsDir(names[i]) /\ key \in DerivedKeysOf(names[i])}

\* C16: a derived key that two entries of an archive contend for (and that is
\* no entry's full path) resolves to the contender that comes first in the
\* archive's enumeration order.
C16_FirstEntryOwnsContestedKey ==
    \A k \in DOMAIN zip_file_cache :
       LET names == Opened(k).names
       IN  \A key \in DOMAIN zip_index_cache[k] :
              (/\ Cardinality(Contenders(names, key)) >= 2
               /\ \A i \in DOMAIN names : names[i] # key)
              => \E i \in Contenders(names, key) :
                    /\ zip_index_cache[k][key] = names[i]
                    /\ \A j \in Contenders(names, key) : i <= j

\* The scenario: the archive whose only file entry is media/audios/w1.mp3.
Word1 == <<"media", "audios", "w1.mp3">>
Word1Paths == {<<"w1.mp3">>, <<"audios", "w1.mp3">>, Word1}
FileEntries(names) == {names[i] : i \in {j \in DOMAIN names : ~IsDir(names[j])}}
AsksWord1 ==
    /\ apiResp.op = "get_file_from_zip"
    /\ FileEntries(fs[apiResp.key].names) = {Word1}
    /\ apiResp.path \in Word1Paths

\* C17: in an archive whose only file entry is media/audios/w1.mp3, each of
\* the request paths w1.mp3, audios/w1.mp3 and media/audios/w1.mp3 is answered
\* with a producer that reads that entry from the open handle of the archive:
\* the three byte streams are the same.
C17_ThreePathsOneStream ==
    AsksWord1 =>
        /\ apiResp.status = 200
        /\ apiResp.target = Word1
        /\ apiResp.handle = zip_file_cache[apiResp.key]
        /\ handles[apiResp.handle].open
        /\ handles[apiResp.handle].names = fs[apiResp.key].names

\* C17: the path audios/w1.mp3 was asked of that archive and got a producer.
C17_Witness ==
    /\ AsksWord1
    /\ apiResp.path = <<"audios", "w1.mp3">>
    /\ apiResp.status = 200
    /\ apiResp.target = Word1

\* The archive k was touched: the file holds the entries the cached handle was
\* opened on, and its mtime is no longer the cached one.
Touched(k) ==
    /\ k \in DOMAIN zip_file_cache
    /\ fs[k].exists /\ fs[k].valid
    /\ fs[k].names = handles[zip_file_cache[k]].names
    /\ fs[k].mtime # zip_file_mtime_cache[k]

\* C18: the resolve that follows a touch of an archive (its content is the one
\* the cache was built from, its mtime is another) rebuilds: it closes the
\* cached handle, opens a new one and records the new mtime; the rebuilt path
\* map and file count equal the previous ones, and a request path resolves to
\* the entry the previous map gave it, or to 404 when it was not a key.
C18_TouchRebuildsTheSameIndex ==
    [][\A k \in ZipKeys :
          (Touched(k) /\ fs'[k] = fs[k]) =>
             /\ apiResp'.key = k /\ apiResp'.rebuilt
             /\ Len(handles') = Len(handles) + 1
             /\ ~handles'[zip_file_cache[k]].open
             /\ zip_file_cache'[k] = Len(handles')
             /\ zip_file_mtime_cache'[k] = fs[k].mtime
             /\ zip_index_cache'[k] = zip_index_cache[k]
             /\ zip_file_count_cache'[k] = zip_file_count_cache[k]
             /\ apiResp'.op = "get_file_from_zip" =>
                   IF apiResp'.path \in DOMAIN zip_index_cache[k]
                   THEN /\ apiResp'.status = 200
                        /\ apiResp'.target = zip_index_cache[k][apiResp'.path]
                   ELSE apiResp'.status = 404]_vars

\* C18: a request was answered by a rebuild on the content of the handle that
\* the rebuild closed, under a later mtime.
C18_Witness ==
    /\ apiResp.op = "get_file_from_zip" /\ apiResp.rebuilt /\ apiResp.status = 200
    /\ Len(handles) >= 2
    /\ handles[Len(handles)].names = handles[Len(handles) - 1].names
    /\ handles[Len(handles)].names = fs[apiResp.key].names
    /\ zip_file_cache[apiResp.key] = Len(handles)
    /\ zip_file_mtime_cache[apiResp.key] = fs[apiResp.key].mtime
    /\ fs[apiResp.key].mtime >= 2

\* The step is a request that the API service answered.
Answered == apiResp' # apiResp \/ handles' # handles \/ zipCaches' # zipCaches

\* The response carries a producer / carries none.
Producer(r) == r.target # <<>> /\ r.handle # 0
NoProducer(r) == r.target = <<>> /\ r.handle = 0

AsAfterOneRebuild(k) ==
    /\ k \in DOMAIN zip_file_cache
    /\ handles[zip_file_cache[k]].open
    /\ handles[zip_file_cache[k]].names = fs[k].names
    /\ zip_index_cache[k] = BuildIndex(fs[k].names).index
    /\ zip_file_count_cache[k] = BuildIndex(fs[k].names).file_count
    /\ zip_file_mtime_cache[k] = fs[k].mtime

\* C25: two accessors found the archive stale: the event loop runs the first
\* get_zip_index to its end, which rebuilds, then the second, which rebuilds
\* again or finds the cache.  The second completes without an error and leaves
\* the caches one rebuild on the file in place leaves.
C25_SecondAccessorLeavesOneRebuild ==
    [][\A k \in ZipKeys :
          (/\ apiResp.key = k /\ apiResp.rebuilt /\ k \in DOMAIN zip_file_cache
           /\ apiResp.op \in {"get_zip_index", "get_file_from_zip"}
           /\ fs[k].exists /\ fs[k].valid /\ fs'[k] = fs[k]
           /\ Answered)
          => /\ apiResp'.key = k
             /\ apiResp'.status # 500
             /\ apiResp'.op = "get_zip_index" => apiResp'.status = 200
             /\ AsAfterOneRebuild(k)']_vars

\* C25: the second of two accessors rebuilt as the first had: two handles on
\* the same entries, the first closed and the second cached.
C25_Witness ==
    /\ apiResp.op = "get_zip_index" /\ apiResp.status = 200 /\ apiResp.rebuilt
    /\ Len(handles) >= 2
    /\ handles[Len(handles) - 1].key = apiResp.key
    /\ handles[Len(handles) - 1].names = handles[Len(handles)].names
    /\ ~handles[Len(handles) - 1].open
    /\ AsAfterOneRebuild(apiResp.key)

\* C28: every ZipFile that get_zip_index opened and that is still open is the
\* one the cache holds for its archive (a replaced one is closed when it is
\* replaced), and after the teardown of the lifespan no ZipFile is open and
\* the handle, path map, count, mtime and decompressor caches are empty.
C28_HandlesAreOwnedAndReleased ==
    /\ \A i \in DOMAIN handles :
          handles[i].open =>
             /\ handles[i].key \in DOMAIN zip_file_cache
             /\ zip_file_cache[handles[i].key] = i
    /\ apiResp.op = "shutdown" =>
          /\ \A i \in DOMAIN handles : ~handles[i].open
          /\ zip_file_cache = EmptyDict /\ zip_index_cache = EmptyDict
          /\ zip_file_count_cache = EmptyDict /\ zip_file_mtime_cache = EmptyDict
          /\ zstd_decompressors = EmptyDict

\* C28: the service was shut down after it had replaced one ZipFile, cached
\* another and answered an entry query.
C28_Witness ==
    /\ apiResp.op = "shutdown"
    /\ Len(handles) >= 2
    /\ "d1" \in db_connections
    /\ \A i \in DOMAIN handles : ~handles[i].open

(***************************************************************************)
(* Properties of the entry queries                                         *)
(***************************************************************************)
\* C5: decompress_json_data never raises: whatever the json_data of the rows
\* and whatever the decompressor, an entry query or a batch download is not
\* aborted by it.
C5_DecompressNeverRaises ==
    apiResp.op \in {"query_entry", "download_entries_batch"} => apiResp.status # 500

\* What the fallback chain gives for the bytes data with the context dctx: the
\* value parsed from the decompressed bytes when the frame decompresses with
\* dctx, else the value parsed from the bytes themselves, else {}.
Decompresses(data, dctx) ==
    dctx # NoDctx /\ data.frame /\ data.zdict \in {"none", dctx.zdict}
Chain(data, dctx) ==
    IF Decompresses(data, dctx) /\ data.payload = "json" THEN "doc"
    ELSE IF ~data.frame /\ data.payload = "json" THEN "doc"
    ELSE EmptyObject

\* The context of the request the step answers, and the rows it decompresses.
ContextOf(d) ==
    IF d \in DOMAIN zstd_decompressors' THEN zstd_decompressors'[d] ELSE NoDctx
RowsAsked ==
    LET found == SelectSeq(apiResp'.path, LAMBDA e : db.entries[e] # NoEntry)
    IN  [i \in DOMAIN found |-> db.entries[found[i]]]

\* C20: decompress follows one chain: the bytes are decompressed with the
\* context and the result parsed; when the decompression fails the bytes
\* themselves are parsed; when the parsing fails the value is {}.  Plain JSON
\* bytes give the parsed value and garbage bytes give {}: an entry query whose
\* rows are bytes answers 200 with the value of the chain for each row.
C20_DecompressFallbackChain ==
    [][(/\ db' = db
        /\ apiResp'.op \in {"query_entry", "download_entries_batch"}
        /\ RowsAsked # <<>>
        /\ apiResp'.status \notin {400, 404}
        /\ \A i \in DOMAIN RowsAsked : RowsAsked[i].type = "bytes")
       => /\ apiResp'.status = 200
          /\ apiResp'.body =
                [i \in DOMAIN RowsAsked |-> Chain(RowsAsked[i], ContextOf(apiResp'.key))]]_vars

\* C20: an entry stored as plain JSON bytes was asked with a decompressor in
\* place, and the answer is its parsed value.
C20_Witness ==
    /\ apiResp.op = "query_entry" /\ apiResp.status = 200
    /\ db.entries[apiResp.path[1]] = Plain("json")
    /\ apiResp.key \in DOMAIN zstd_decompressors
    /\ apiResp.body = <<"doc">>

\* The step answers a query of one entry of the dictionary, found in the db.
AnswersEntry ==
    /\ db' = db
    /\ apiResp'.op = "query_entry"
    /\ apiResp'.status # 404
    /\ apiResp' # apiResp \/ zstd_decompressors' # zstd_decompressors

CallsGetDecompressor ==
    /\ db' = db
    /\ \/ apiResp' # apiResp
       \/ zstd_decompressors' # zstd_decompressors
       \/ db_connections' # db_connections
    /\ \/ apiResp'.op = "query_entry" /\ apiResp'.status # 404
       \/ /\ apiResp'.op = "download_entries_batch"
          /\ db.exists /\ apiResp'.path # <<>>

LazyCount(file, atOpen) ==
    IF file.exists /\ atOpen.exists /\ atOpen.valid
    THEN BuildIndex(atOpen.names).file_count ELSE 0

\* C23: the preload is only an optimization: the first request after the start
\* gets the answer of a service that ran no preload, which builds the index
\* from the file in place: the count of its file entries, and for a request
\* path the entry its path map gives, or 404.
C23_PreloadIsOnlyAnOptimization ==
    [][(apiResp = StartApiResp /\ apiResp' # apiResp) =>
          LET k == apiResp'.key
              lazy == BuildIndex(fs'[k].names).index
          IN  /\ apiResp'.op = "count_files_in_zip_index" =>
                    apiResp'.body = <<LazyCount(fs[k], fs'[k])>>
              /\ apiResp'.op = "get_file_from_zip" =>
                    IF ~fs[k].exists THEN apiResp'.status = 404
                    ELSE IF ~fs'[k].exists \/ ~fs'[k].valid
                    THEN apiResp'.status = 500
                    ELSE IF apiResp'.path \in DOMAIN lazy
                    THEN /\ apiResp'.status = 200
                         /\ apiResp'.target = lazy[apiResp'.path]
                    ELSE apiResp'.status = 404]_vars

(***************************************************************************)
(* Properties of the byte-chunk producer                                   *)
(***************************************************************************)
\* C24: the generator yields only chunks of 1 to 65536 bytes, each starting
\* where the one before ended, the first at byte 0; when it has finished, the
\* chunks are the whole entry (none for an empty entry), and a finished
\* generator yields nothing more.
C24_ChunksAreTheEntry ==
    /\ \A i \in DOMAIN stream.chunks :
          /\ stream.chunks[i].len >= 1 /\ stream.chunks[i].len <= 65536
          /\ stream.chunks[i].from =
                IF i = 1 THEN 0
                ELSE stream.chunks[i - 1].from + stream.chunks[i - 1].len
    /\ stream.pos =
          IF stream.chunks = <<>> THEN 0
          ELSE stream.chunks[Len(stream.chunks)].from
                  + stream.chunks[Len(stream.chunks)].len
    /\ stream.st = "done" => stream.pos = SizeOf(stream.target)
    /\ stream.st = "done" => ~ENABLED file_iterator

\* C24: the generator has finished an entry of two full chunks and five bytes.
C24_Witness ==
    /\ stream.st = "done"
    /\ SizeOf(stream.target) = 2 * 65536 + 5
    /\ Len(stream.chunks) = 3
    /\ stream.chunks[3].len = 5

\* C30: a generator never opens its entry on a ZipFile that has been closed:
\* the handle of a generator that has not started yet is open, also after
\* another request has rebuilt the index of the archive, and no generator ends
\* by an exception.
C30_ProducerOutlivesRebuild ==
    /\ stream.st = "returned" => handles[stream.handle].open
    /\ stream.st # "failed"

(***************************************************************************)
(* Properties of the decompressor cache                                    *)
(***************************************************************************)
\* C26: once a decompressor of a dictionary is in the cache, the cache entry
\* of the dictionary is never replaced by another one, also when several
\* calls miss the cache at the same time.
C26_CachedContextIsNeverReplaced ==
    [][\A d \in DOMAIN zstd_decompressors :
          /\ d \in DOMAIN zstd_decompressors'
          /\ zstd_decompressors'[d] = zstd_decompressors[d]]_vars

\* C27: the cached decompressor of the dictionary is seeded with the training
\* blob its dictionary.db holds now, the one compress_entry uses for the
\* entries written to it, after any upload of a dictionary.db; and every entry
\* that compress_entry wrote is answered with its value.
C27_ContextFollowsStoredBlob ==
    /\ \A d \in DOMAIN zstd_decompressors :
          zstd_decompressors[d] = ZstdDecompressor(_get_zstd_dict(db))
    /\ (apiResp.op = "query_entry" /\ apiResp.status = 200
          /\ db.entries[apiResp.path[1]] \in
                {compress_entry(JsonDumps(v), db.zdict) : v \in Values})
       => db.entries[apiResp.path[1]] =
             compress_entry(JsonDumps(apiResp.body[1]), db.zdict)


(***************************************************************************)
(* Properties of failed updates                                            *)
(***************************************************************************)
\* The rows of version_history a step appended.
AppendedRows == {ledger'[i] : i \in (Len(ledger) + 1)..Len(ledger')}

\* C29: when an update fails at any step, the clean-up of a failed create_dict
\* included, stored files may be ahead of the ledger but never behind it: every
\* ledger record a request appended names a file that is in the storage of its
\* dictionary when the request returns, and a create_dict that left no
\* directory behind reports an error, not success.
C29_LedgerNeverAheadOfStorage ==
    [][ /\ \A r \in AppendedRows :
             /\ disk'[r.dict_id] # NoDir
             /\ r.file_name \in disk'[r.dict_id]
        /\ (resp'.op = "create_dict" /\ disk'[resp'.dict_id] = NoDir)
              => resp'.status # 200 ]_vars


(***************************************************************************)
(* Properties of the index under a writer with fresh modification times    *)
(***************************************************************************)
\* The cached snapshot of k equals the modification time of the archive at k.
SnapshotIsCurrent(k) ==
    /\ fs[k].exists
    /\ k \in DOMAIN zip_file_mtime_cache
    /\ zip_file_mtime_cache[k] = fs[k].mtime

\* C31: with a writer that gives every content change a fresh modification
\* time and may write at any moment, also between the stat and the open of
\* get_zip_index: whenever the cached snapshot equals the current modification
\* time of the archive, the cached path map is the index of the current
\* content; and a resolve that answers 200 returns the index of the content
\* the archive has when it returns.
C31_CurrentSnapshotMeansCurrentIndex ==
    [][ /\ \A k \in ZipKeys :
             SnapshotIsCurrent(k)' =>
                /\ fs'[k].valid
                /\ zip_index_cache'[k] = BuildIndex(fs'[k].names).index
        /\ \A k \in ZipKeys :
             ((\E atOpen \in AtOpen(k) : GetZipIndex(k, atOpen))
                  /\ apiResp'.status = 200)
             => apiResp'.index = BuildIndex(fs'[k].names).index ]_vars

\* A second build is cached under the current modification time of an archive
\* whose content an earlier build had read differently.
C31_Witness ==
    /\ SnapshotIsCurrent("audios.zip")
    /\ apiResp.op = "get_zip_index" /\ apiResp.status = 200
    /\ Len(handles) >= 2
    /\ \E i \in DOMAIN handles : handles[i].names # fs["audios.zip"].names

\* C32: in every built path map the full internal path of each non-directory
\* entry maps to that entry itself, whatever the order of the namelist: no
\* basename or shortened path of another entry takes an identity key over.
C32_IdentityKeyMapsToItself ==
    \A k \in DOMAIN zip_file_cache :
       \A i \in DOMAIN Opened(k).names :
          ~IsDir(Opened(k).names[i])
             => /\ Opened(k).names[i] \in DOMAIN zip_index_cache[k]
                /\ zip_index_cache[k][Opened(k).names[i]] = Opened(k).names[i]


\* The number of non-directory entries of the archive `file`, 0 when there is
\* no archive to read there.
CurrentCount(file) ==
    IF file.exists /\ file.valid THEN BuildIndex(file.names).file_count ELSE 0

\* C33: count_files_in_zip_index returns the number of non-directory entries
\* of the archive as it is when the call returns: never the count of a build
\* whose snapshot is not the current modification time of the archive, nor a
\* count for an archive whose last rebuild failed.
C33_CountIsOfTheCurrentArchive ==
    [][\A k \in ZipKeys :
          (\E atOpen \in AtOpen(k) : count_files_in_zip_index(k, atOpen))
          => apiResp'.body = <<CurrentCount(fs'[k])>>]_vars


(***************************************************************************)
(* Composition of the manifests                                            *)
(***************************************************************************)
\* The manifest of dictionary d for the window (f, t] of the stored ledger.
ManifestOf(d, f, t) == _compute_required_files(ledger, d, f, t)

\* q followed by the elements of r that q does not hold, in their order.
FollowedByNew(q, r) ==
    q \o SelectSeq(r, LAMBDA x : \A i \in DOMAIN q : q[i] # x)

\* The manifest of (a, c] is the manifests of (a, b] and (b, c] composed.
Composes(d, a, b, c) ==
    LET ac == ManifestOf(d, a, c)
        ab == ManifestOf(d, a, b)
        bc == ManifestOf(d, b, c)
    IN  /\ Range(ac.files) = Range(ab.files) \cup Range(bc.files)
        /\ ac.entries = IF \E i \in WindowRows(d, b, c) : IsDbFile(i)
                        THEN bc.entries
                        ELSE FollowedByNew(ab.entries, bc.entries)

\* C34: manifests compose over adjacent windows: for versions a <= b <= c the
\* files of (a, c] are the union of the files of (a, b] and of (b, c]; the
\* entries of (a, c] are those of (b, c] when (b, c] holds a record of the
\* file dictionary.db, and else the entries of (a, b] followed by the ids of
\* (b, c] not already there, in order.
C34_ManifestsComposeOverWindows ==
    SyncOk =>
       /\ resp.required = ManifestOf(resp.dict_id, resp.from_ver, resp.version)
       /\ \A b \in resp.from_ver..resp.version :
             Composes(resp.dict_id, resp.from_ver, b, resp.version)

\* An update query over a window that splits into two windows with entries,
\* the second holding no dictionary.db and repeating an id of the first that
\* is not the last one there.
C34_Witness ==
    /\ SyncOk
    /\ \E b \in (resp.from_ver + 1)..(resp.version - 1) :
          LET ab == ManifestOf(resp.dict_id, resp.from_ver, b)
              bc == ManifestOf(resp.dict_id, b, resp.version)
          IN  /\ ~\E i \in WindowRows(resp.dict_id, b, resp.version) : IsDbFile(i)
              /\ Len(ab.entries) >= 2 /\ bc.entries # <<>>
              /\ ab.entries[Len(ab.entries)] # bc.entries[1]
              /\ Range(bc.entries) \subseteq Range(ab.entries)
              /\ resp.required.entries = ab.entries


(***************************************************************************)
(* Properties of the entry uploads                                         *)
(***************************************************************************)
\* C35: an entries batch is all-or-nothing: when upsert_dict_entries rejects
\* the upload (an invalid JSON line, a failure while an entry is stored or
\* recorded), no entry of the upload is in dictionary.db and no ledger record
\* of the batch has been appended.
C35_RejectedBatchLeavesNothing ==
    [][(resp'.op = "upsert_dict_entries" /\ resp'.status # 200)
          => db' = db /\ ledger' = ledger]_vars


(***************************************************************************)
(* Properties of the connection registries                                 *)
(***************************************************************************)
\* C36: every connection get_db_connection or get_media_db_connection opened
\* is in its registry under the key of its dictionary until it is closed, and
\* is closed once the service has shut down, also when two requests for one
\* dictionary miss the registry concurrently.
C36_OpenedConnectionsStayRegistered ==
    \A i \in DOMAIN connections :
       /\ ~connections[i].closed =>
             /\ connections[i].key \in DOMAIN conn_registry[connections[i].which]
             /\ conn_registry[connections[i].which][connections[i].key] = i
       /\ apiResp.op = "shutdown" => connections[i].closed


(***************************************************************************)
(* Ownership                                                               *)
(***************************************************************************)
\* A request of user u that would change dictionary d.
ChangesDict(u, d) ==
    \/ delete_dict(u, d)
    \/ \E in \in UpdateInputs : update_dict(u, d, "m1", in[1], in[2], 0)
    \/ \E in \in UpsertInputs : upsert_dict_entries(u, d, "m1", in[1], in[2], 0)

\* C37: only the owner of a dictionary can change it: update_dict,
\* upsert_dict_entries and delete_dict of a user who does not own d answer
\* 404 and leave the files of d, its dicts row and the ledger as they were;
\* create_dict for an id that is in the dicts table or on disk is rejected and
\* changes nothing.
C37_OnlyTheOwnerChangesADict ==
    [][\A u \in Users, d \in DictIds :
          /\ ((dicts[d] = NoRow \/ dicts[d].user_id # u) /\ ChangesDict(u, d))
                => /\ resp'.status = 404
                   /\ UNCHANGED <<ledger, dicts, disk, issued>>
          /\ ((dicts[d] # NoRow \/ disk[d] # NoDir)
                 /\ \E media \in BOOLEAN : create_dict(u, d, media, "m1", 0))
                => /\ resp'.status = 400
                   /\ UNCHANGED <<ledger, dicts, disk, issued>>]_vars

\* A request on a dictionary in place, owned by another user, was answered
\* 404.
C37_Witness ==
    /\ resp.op \in {"delete_dict", "update_dict", "upsert_dict_entries"}
    /\ resp.status = 404
    /\ dicts[resp.dict_id] # NoRow /\ disk[resp.dict_id] # NoDir
    /\ Len(LedgerOf(resp.dict_id)) >= 3


(***************************************************************************)
(* The update without files                                                *)
(***************************************************************************)
\* C38: update_dict called with no file at all is rejected with a client
\* error and consumes no version: no file is written, the dicts row and the
\* ledger stay as they were, and the next batch gets the version it would have
\* got without the call.
C38_EmptyUpdateConsumesNoVersion ==
    [][\A d \in DictIds, m \in Messages :
          (/\ dicts[d] # NoRow /\ dicts[d].user_id = "u1" /\ disk[d] # NoDir
           /\ update_dict("u1", d, m, {}, "ok", 0))
          => /\ resp'.status = 400
             /\ UNCHANGED <<ledger, dicts, disk, issued>>
             /\ next_version(ledger', d) = next_version(ledger, d)]_vars

\* An update_dict without files was rejected on a dictionary that has had an
\* update of its files and a batch of entries.
C38_Witness ==
    /\ resp.op = "update_dict" /\ resp.status = 400
    /\ dicts[resp.dict_id] # NoRow /\ disk[resp.dict_id] # NoDir
    /\ next_version(ledger, resp.dict_id) >= 3
    /\ \E i \in DOMAIN ledger : ledger[i].change_type = "entry"


====
